---- MODULE Spec2Model ----
(***************************************************************************)
(* x402 payment gate: the Next.js gate of the SDK (server/next), the gate  *)
(* of the lib package (lib/x402-middleware), the facilitator's verify and  *)
(* settle endpoints in both wire formats, and the ledger they submit to.   *)
(***************************************************************************)
EXTENDS Integers, Sequences, FiniteSets, TLC

(***************************************************************************)
(* Bounds                                                                  *)
(***************************************************************************)
\* number of requests that are in the system concurrently
NReq == 2

Requests == 1..NReq

(***************************************************************************)
(* Protocol constants                                                      *)
(***************************************************************************)
X402_VERSION == 1
X402_SCHEME == "exact"
APTOS_TESTNET == "aptos-testnet"
APTOS_MAINNET == "aptos-mainnet"
validVaraNetworks == {"aptos-testnet", "aptos-mainnet", "aptos-devnet"}

\* JavaScript null / undefined, and an absent optional field
Null == "null"
Undefined == "undefined"

(***************************************************************************)
(* Deployment: which gate runs, which facilitator it talks to              *)
(***************************************************************************)
GATE_NEXT == "server/next"
GATE_LIB == "lib/x402-middleware"
GATE_VARA == "lib/vara-x402-middleware"

\* the endpoints of this repository that speak the x402 wire format
FAC_PROTOCOL == "facilitator/x402"
\* the endpoints of this repository that speak the signedTransaction format
FAC_LEGACY == "facilitator/signedTransaction"
\* a facilitator deployed elsewhere, reached through facilitatorConfig.url
FAC_REMOTE == "facilitator/remote"
FAC_NONE == "facilitator/none"

Deployments ==
  { <<GATE_NEXT, FAC_PROTOCOL>>, <<GATE_NEXT, FAC_REMOTE>>,
    <<GATE_LIB, FAC_LEGACY>>, <<GATE_VARA, FAC_NONE>> }

\* process.env.PAYMENT_RECIPIENT_ADDRESS, possibly unset
PayTo == "0xR"
Recipients == {PayTo, ""}

(***************************************************************************)
(* Route tables                                                            *)
(***************************************************************************)
ProtectedPath == "/api/protected/weather"
\* lies under the matcher prefix, is no key of the route table
SubPath == "/api/protected/weather/forecast"
Paths == {ProtectedPath, SubPath}

Price == "1000000"
NativePrice == "1000000000000"
VftAsset == "0x64f9"

\* a list of alternatives per route (src/middleware.ts)
varaRoutes ==
  [p \in {ProtectedPath} |->
     << [price |-> NativePrice, network |-> "testnet", asset |-> Undefined,
         description |-> "Access to weather data API (pay in native token)"],
        [price |-> Price, network |-> "testnet", asset |-> VftAsset,
         description |-> "Access to weather data API (pay in VFT token)"] >>]

(***************************************************************************)
(* Instruments: a signed transfer transaction.  The ledger's anti-replay   *)
(* key is (sender, seq).  raw is the base64 text of the transaction blob:  *)
(* "tx" decodes to the BCS bytes, "====" is a non-empty text that decodes  *)
(* to zero bytes, "" is an empty text.                                     *)
(***************************************************************************)
Senders == {"alice", "bob", "carol"}

Tx(s, to, amt) == [raw |-> "tx", sender |-> s, seq |-> 0, to |-> to, amount |-> amt]

TxA == Tx("alice", PayTo, Price)
TxB == Tx("bob", PayTo, Price)
TxLow == Tx("carol", PayTo, "999999")
TxPad == Tx("carol", PayTo, "01000000")
TxEvil == Tx("carol", "0xEvil", Price)
EmptyTx == [raw |-> "", sender |-> "", seq |-> 0, to |-> "", amount |-> ""]
ZeroTx == [raw |-> "====", sender |-> "", seq |-> 0, to |-> "", amount |-> ""]

Instruments == {TxA, TxB, TxLow, TxPad, TxEvil}
TxBlobs == Instruments \cup {EmptyTx, ZeroTx}
\* base64 text of the authenticator the sender of tx produces by signing tx
Signed(tx) ==
  IF tx.sender = "alice" THEN "c2lnQQ"
  ELSE IF tx.sender = "bob" THEN "c2lnQg"
  ELSE "c2lnQw"

\* base64 text of the signature blob: empty, decoding to zero bytes, bytes
\* that are nobody's signature, the signature of alice
SigBlobs == {"", "====", "c2ln", "c2lnQQ"}

\* every blob is taken to decode to zero bytes
B64Len_AlwaysZero(text) == 0

\* Buffer.from(text, 'base64').length
B64Len(text) == IF text \in {"", "===="} THEN 0 ELSE 1

(***************************************************************************)
(* The X-PAYMENT header.  kind says what the header text is:               *)
(*   none     no header                                                    *)
(*   payload  base64 of the JSON of a PaymentPayload                       *)
(*   rawtx    base64 of the BCS bytes of a signed transaction              *)
(*   garbage  text that is neither                                         *)
(***************************************************************************)
Payload(v, s, n, sig, tx) ==
  [kind |-> "payload", x402Version |-> v, scheme |-> s, network |-> n,
   signature |-> sig, transaction |-> tx]

NoHeader ==
  [kind |-> "none", x402Version |-> 0, scheme |-> "", network |-> "",
   signature |-> "", transaction |-> EmptyTx]
Garbage == [NoHeader EXCEPT !.kind = "garbage"]
RawTx(tx) == [NoHeader EXCEPT !.kind = "rawtx", !.transaction = tx]

Good(tx) == Payload(X402_VERSION, X402_SCHEME, APTOS_TESTNET, Signed(tx), tx)

\* every payload the verifier is exercised with
AllPayloads ==
  { Payload(v, s, n, sig, tx) :
      v \in {1, 2}, s \in {"exact", "upto"},
      n \in {"aptos-testnet", "aptos-mainnet", "solana"},
      sig \in SigBlobs, tx \in TxBlobs }

\* the headers the requests to the SDK gate carry
NextHeaders ==
  { NoHeader, Garbage, Good(TxA), Good(TxB),
    Payload(2, X402_SCHEME, APTOS_TESTNET, Signed(TxA), TxA),
    Payload(X402_VERSION, "upto", APTOS_TESTNET, Signed(TxA), TxA),
    Payload(X402_VERSION, X402_SCHEME, "solana", Signed(TxA), TxA),
    Payload(X402_VERSION, X402_SCHEME, APTOS_TESTNET, "", TxA) }

\* the headers the requests to the lib gate carry
LibHeaders ==
  { NoHeader, Garbage, RawTx(TxA), RawTx(TxB), RawTx(TxLow), RawTx(TxEvil), RawTx(ZeroTx) }

\* the requests to the multi-alternative gate carry no instrument
VaraHeaders == { NoHeader }

\* !paymentHeader: no header, or a header with an empty text
HeaderMissing(h) == h.kind = "none"

\* Buffer.from(paymentHeader, 'base64').length
HeaderBytes(h) ==
  IF h.kind = "none" THEN 0
  ELSE IF h.kind = "rawtx" THEN B64Len(h.transaction.raw)
  ELSE 1

\* whatever the header text is, it is taken to parse
ParseThrows_Never(h) == FALSE

\* JSON.parse(Buffer.from(paymentHeader, 'base64').toString('utf-8')) throws
ParseThrows(h) == h.kind # "payload"

(***************************************************************************)
(* PaymentRequirements                                                     *)
(***************************************************************************)
Requirements(scheme, network, amount, payTo, asset, description) ==
  [scheme |-> scheme, network |-> network, maxAmountRequired |-> amount,
   resource |-> ProtectedPath, description |-> description,
   mimeType |-> "application/json", payTo |-> payTo,
   maxTimeoutSeconds |-> 60, asset |-> asset]

NoRequirements == Requirements("", "", "", "", Undefined, "")

(***************************************************************************)
(* Facilitator, x402 wire format: POST /verify                             *)
(***************************************************************************)
VerifyResponse(status, isValid, invalidReason) ==
  [kind |-> "json", status |-> status, isValid |-> isValid,
   invalidReason |-> invalidReason, error |-> Null]

NoVerifyResponse == [VerifyResponse(0, FALSE, Null) EXCEPT !.kind = "none"]

VerifyBody(version, h, hasReq, req) ==
  [x402Version |-> version, paymentHeader |-> h,
   hasRequirements |-> hasReq, paymentRequirements |-> req]

NoBody == VerifyBody(0, NoHeader, FALSE, NoRequirements)

\* the exception leaves the handler instead of being reported
VerifyCatch_Rethrows(message) == [NoVerifyResponse EXCEPT !.kind = "thrown", !.status = 500]

\* lines 225-234: the catch block of POST /verify
VerifyCatch(message) == VerifyResponse(500, FALSE, message)

\* the checks on the decoded payload, lines 130-223
VerifyPayload(payload, req) ==
  IF payload.scheme # req.scheme
    THEN VerifyResponse(200, FALSE, "Scheme mismatch")
  ELSE IF payload.network # req.network
    THEN VerifyResponse(200, FALSE, "Network mismatch")
  ELSE IF payload.signature = "" \/ payload.transaction.raw = ""
    THEN VerifyResponse(200, FALSE, "Invalid payload: missing signature or transaction")
  ELSE IF B64Len(payload.signature) = 0 \/ B64Len(payload.transaction.raw) = 0
    THEN VerifyResponse(200, FALSE, "Empty signature or transaction data")
  ELSE VerifyResponse(200, TRUE, Null)

VerifyPOST(body) ==
  LET req == body.paymentRequirements
      h == body.paymentHeader
  IN  IF ~body.hasRequirements
        \* paymentRequirements.scheme is read for the log line before any check
        THEN VerifyCatch("Cannot read properties of undefined")
      ELSE IF body.x402Version # X402_VERSION
        THEN VerifyResponse(200, FALSE, "Unsupported x402 version")
      ELSE IF HeaderMissing(h)
        THEN VerifyResponse(400, FALSE, "Missing paymentHeader or paymentRequirements")
      ELSE IF req.scheme # X402_SCHEME
        THEN VerifyResponse(200, FALSE, "Unsupported scheme")
      ELSE IF req.network = "" \/ req.network \notin validVaraNetworks
        THEN VerifyResponse(200, FALSE, "Invalid Aptos network")
      ELSE IF ParseThrows(h)
        THEN VerifyResponse(200, FALSE, "Invalid JSON in payment payload")
      ELSE VerifyPayload(h, req)

(***************************************************************************)
(* Facilitator, x402 wire format: POST /settle                             *)
(***************************************************************************)
SettleResponse(status, success, error, txHash, networkId) ==
  [kind |-> "json", status |-> status, success |-> success, settled |-> FALSE,
   error |-> error, message |-> Null, txHash |-> txHash, networkId |-> networkId,
   amount |-> Null, recipient |-> Null]

NoSettleResponse == [SettleResponse(0, FALSE, Null, Null, Null) EXCEPT !.kind = "none"]

\* lines 274-301: the catch block of POST /settle
SettleCatch(message) ==
  IF message \in {"SEQUENCE_NUMBER_TOO_OLD", "INVALID_SEQ_NUMBER", "already submitted"}
    THEN SettleResponse(409, FALSE, "Transaction already used", Null, Null)
    ELSE SettleResponse(500, FALSE, message, Null, Null)

SettlePOST(body) ==
  LET req == body.paymentRequirements
      h == body.paymentHeader
  IN  IF ~body.hasRequirements
        THEN SettleCatch("Cannot read properties of undefined")
      ELSE IF body.x402Version # X402_VERSION
        THEN SettleResponse(200, FALSE, "Unsupported x402 version", Null, Null)
      ELSE IF HeaderMissing(h)
        THEN SettleResponse(400, FALSE, "Missing paymentHeader or paymentRequirements", Null, Null)
      ELSE IF req.scheme # X402_SCHEME
        THEN SettleResponse(200, FALSE, "Unsupported scheme", Null, Null)
      \* the submission to the ledger is commented out; the hash is a placeholder
      ELSE SettleResponse(200, TRUE, Null, "0xTODO",
                          IF req.network = "" THEN "testnet" ELSE req.network)

(***************************************************************************)
(* Facilitator, signedTransaction wire format: POST /verify                *)
(***************************************************************************)
LegacyBody(h, recipient, amount, network) ==
  [signedTransaction |-> h, expectedRecipient |-> recipient,
   expectedAmount |-> amount, expectedNetwork |-> network]

LegacyVerifyResponse(status, valid, error, message) ==
  [kind |-> "json", status |-> status, isValid |-> valid,
   invalidReason |-> message, error |-> error]

LegacyVerifyPOST(body) ==
  IF HeaderMissing(body.signedTransaction) \/ body.expectedRecipient = ""
       \/ body.expectedAmount = ""
    THEN LegacyVerifyResponse(400, FALSE, "Missing required fields", Null)
  ELSE IF HeaderBytes(body.signedTransaction) = 0
    THEN LegacyVerifyResponse(400, FALSE, "Invalid transaction", "Empty transaction data")
  ELSE LegacyVerifyResponse(200, TRUE, Null, "Payment payload is valid and can be settled")


(***************************************************************************)
(* The codec of the X-PAYMENT header at the level of characters.  A string *)
(* is the sequence of its code points, a Buffer the sequence of its bytes, *)
(* a JSON value a tagged record.                                           *)
(***************************************************************************)
JNum(n) == [t |-> "num", v |-> n]
JStr(s) == [t |-> "str", v |-> s]
\* members: the sequence of <<key, value>> pairs of an object, in order
JObj(members) == [t |-> "obj", v |-> members]
JUndefined == [t |-> "undefined", v |-> 0]

Key_x402Version == <<120, 52, 48, 50, 86, 101, 114, 115, 105, 111, 110>>
Key_scheme == <<115, 99, 104, 101, 109, 101>>
Key_network == <<110, 101, 116, 119, 111, 114, 107>>
Key_payload == <<112, 97, 121, 108, 111, 97, 100>>
Key_signature == <<115, 105, 103, 110, 97, 116, 117, 114, 101>>
Key_transaction == <<116, 114, 97, 110, 115, 97, 99, 116, 105, 111, 110>>

RECURSIVE Flatten(_, _, _)
\* the concatenation of parts[lo], ..., parts[hi]
Flatten(parts, lo, hi) ==
  IF lo > hi THEN <<>>
  ELSE IF lo = hi THEN parts[lo]
  ELSE Flatten(parts, lo, (lo + hi) \div 2) \o Flatten(parts, (lo + hi) \div 2 + 1, hi)

RECURSIVE Digits(_)
\* the decimal digits of a natural number
Digits(n) == IF n < 10 THEN <<48 + n>> ELSE Digits(n \div 10) \o <<48 + (n % 10)>>

HexDigit(d) == IF d < 10 THEN 48 + d ELSE 87 + d

\* every character is written as it is
EscapeChar_Raw(c) == <<c>>

\* JSON.stringify of one character of a string: the quote, the backslash
\* and the control characters are escaped
EscapeChar(c) ==
  IF c = 34 THEN <<92, 34>>
  ELSE IF c = 92 THEN <<92, 92>>
  ELSE IF c = 8 THEN <<92, 98>>
  ELSE IF c = 9 THEN <<92, 116>>
  ELSE IF c = 10 THEN <<92, 110>>
  ELSE IF c = 12 THEN <<92, 102>>
  ELSE IF c = 13 THEN <<92, 114>>
  ELSE IF c < 32 THEN <<92, 117, 48, 48, HexDigit(c \div 16), HexDigit(c % 16)>>
  ELSE <<c>>

\* JSON.stringify of a string
QuoteJSON(s) ==
  <<34>> \o Flatten([i \in 1..Len(s) |-> EscapeChar(s[i])], 1, Len(s)) \o <<34>>

RECURSIVE JSONStringify(_)
\* JSON.stringify(value): no white space, members in the order of the object
JSONStringify(value) ==
  IF value.t = "num" THEN Digits(value.v)
  ELSE IF value.t = "str" THEN QuoteJSON(value.v)
  ELSE <<123>>
       \o Flatten([i \in 1..Len(value.v) |->
            (IF i > 1 THEN <<44>> ELSE <<>>)
            \o QuoteJSON(value.v[i][1]) \o <<58>> \o JSONStringify(value.v[i][2])],
            1, Len(value.v))
       \o <<125>>

\* the UTF-8 bytes of one code point of the basic plane
Utf8Char(c) ==
  IF c < 128 THEN <<c>>
  ELSE IF c < 2048 THEN <<192 + (c \div 64), 128 + (c % 64)>>
  ELSE <<224 + (c \div 4096), 128 + ((c \div 64) % 64), 128 + (c % 64)>>

\* Buffer.from(text): the UTF-8 bytes of the text
BufferFrom(text) == Flatten([i \in 1..Len(text) |-> Utf8Char(text[i])], 1, Len(text))

\* the character of the base64 alphabet that stands for six bits
B64Char(x) ==
  IF x < 26 THEN 65 + x
  ELSE IF x < 52 THEN 71 + x
  ELSE IF x < 62 THEN x - 4
  ELSE IF x = 62 THEN 43 ELSE 47

\* buffer.toString('base64'): three bytes give four characters, a last group
\* of one or two bytes is padded with '='
ToBase64(b) ==
  LET n == Len(b)
      byte(i) == IF i <= n THEN b[i] ELSE 0
      char(g, k) ==
        IF k = 0 THEN B64Char(byte(3*g + 1) \div 4)
        ELSE IF k = 1 THEN
          B64Char((byte(3*g + 1) % 4) * 16 + (byte(3*g + 2) \div 16))
        ELSE IF k = 2 THEN
          IF 3*g + 2 > n THEN 61
          ELSE B64Char((byte(3*g + 2) % 16) * 4 + (byte(3*g + 3) \div 64))
        ELSE IF 3*g + 3 > n THEN 61 ELSE B64Char(byte(3*g + 3) % 64)
  IN [j \in 1..(4 * ((n + 2) \div 3)) |-> char((j - 1) \div 4, (j - 1) % 4)]

\* the six bits a character stands for (both alphabets are read), -1 for a
\* character of neither alphabet
B64Value(c) ==
  IF c \in 65..90 THEN c - 65
  ELSE IF c \in 97..122 THEN c - 71
  ELSE IF c \in 48..57 THEN c + 4
  ELSE IF c \in {43, 45} THEN 62
  ELSE IF c \in {47, 95} THEN 63
  ELSE 0 - 1

\* the six-bit groups of a base64 text: characters outside the alphabet are
\* skipped and the text ends at the first '='
Sextets(text) ==
  LET pads == {i \in 1..Len(text) : text[i] = 61}
      end == IF pads = {} THEN Len(text)
             ELSE (CHOOSE i \in pads : \A j \in pads : i <= j) - 1
  IN Flatten([i \in 1..end |->
                IF B64Value(text[i]) >= 0 THEN <<B64Value(text[i])>> ELSE <<>>],
             1, end)

\* four six-bit groups give three bytes; an incomplete last group gives the
\* bytes it holds in full
FromSextets(x) ==
  LET n == Len(x)
      tail == IF n % 4 = 0 THEN 0 ELSE (n % 4) - 1
      byte(g, k) ==
        IF k = 0 THEN x[4*g + 1] * 4 + (x[4*g + 2] \div 16)
        ELSE IF k = 1 THEN (x[4*g + 2] % 16) * 16 + (x[4*g + 3] \div 4)
        ELSE (x[4*g + 3] % 4) * 64 + x[4*g + 4]
  IN [j \in 1..(3 * (n \div 4) + tail) |-> byte((j - 1) \div 3, (j - 1) % 3)]

\* Buffer.from(text, 'base64'): never throws
BufferFromBase64(text) == FromSextets(Sextets(text))

\* byte i starts a well-formed character of two bytes
Lead2(b, i) == b[i] \in 194..223 /\ i + 1 <= Len(b) /\ b[i+1] \in 128..191

\* byte i starts a well-formed character of three bytes
Lead3(b, i) ==
  /\ b[i] \in 224..239 /\ i + 2 <= Len(b)
  /\ b[i+1] \in 128..191 /\ b[i+2] \in 128..191
  /\ (b[i] - 224) * 4096 + (b[i+1] - 128) * 64 >= 2048

\* buffer.toString('utf-8'): a byte that belongs to no well-formed character
\* becomes U+FFFD
Utf8Decode(b) ==
  LET continues(i) ==
        \/ i > 1 /\ (Lead2(b, i - 1) \/ Lead3(b, i - 1))
        \/ i > 2 /\ Lead3(b, i - 2)
      char(i) ==
        IF continues(i) THEN <<>>
        ELSE IF b[i] < 128 THEN <<b[i]>>
        ELSE IF Lead2(b, i) THEN <<(b[i] - 192) * 64 + (b[i+1] - 128)>>
        ELSE IF Lead3(b, i) THEN
          <<(b[i] - 224) * 4096 + (b[i+1] - 128) * 64 + (b[i+2] - 128)>>
        ELSE <<65533>>
  IN Flatten([i \in 1..Len(b) |-> char(i)], 1, Len(b))

ParseFail == [ok |-> FALSE, val |-> JUndefined, next |-> 0]
ParseOk(val, next) == [ok |-> TRUE, val |-> val, next |-> next]

RECURSIVE SkipWs(_, _)
\* the position of the first character from i on that is not white space
SkipWs(t, i) ==
  IF i <= Len(t) /\ t[i] \in {9, 10, 13, 32} THEN SkipWs(t, i + 1) ELSE i

HexValue(c) ==
  IF c \in 48..57 THEN c - 48
  ELSE IF c \in 97..102 THEN c - 87
  ELSE IF c \in 65..70 THEN c - 55
  ELSE 0 - 1

\* the character a two-character escape stands for, -1 if there is none
Unescape(c) ==
  IF c \in {34, 47, 92} THEN c
  ELSE IF c = 98 THEN 8
  ELSE IF c = 102 THEN 12
  ELSE IF c = 110 THEN 10
  ELSE IF c = 114 THEN 13
  ELSE IF c = 116 THEN 9
  ELSE 0 - 1

RECURSIVE ParseString(_, _, _)
\* JSON.parse of a string whose opening quote is before position i
ParseString(t, i, acc) ==
  IF i > Len(t) \/ t[i] < 32 THEN ParseFail
  ELSE IF t[i] = 34 THEN ParseOk(JStr(acc), i + 1)
  ELSE IF t[i] = 92 THEN
    IF i + 1 > Len(t) THEN ParseFail
    ELSE IF t[i+1] = 117 THEN
      IF i + 5 <= Len(t) /\ \A k \in 2..5 : HexValue(t[i+k]) >= 0
      THEN ParseString(t, i + 6,
             Append(acc, HexValue(t[i+2]) * 4096 + HexValue(t[i+3]) * 256
                         + HexValue(t[i+4]) * 16 + HexValue(t[i+5])))
      ELSE ParseFail
    ELSE IF Unescape(t[i+1]) >= 0
      THEN ParseString(t, i + 2, Append(acc, Unescape(t[i+1])))
      ELSE ParseFail
  ELSE ParseString(t, i + 1, Append(acc, t[i]))

RECURSIVE ParseDigits(_, _, _)
ParseDigits(t, i, n) ==
  IF i <= Len(t) /\ t[i] \in 48..57
  THEN ParseDigits(t, i + 1, n * 10 + (t[i] - 48))
  ELSE ParseOk(JNum(n), i)

\* JSON.parse of a natural number at position i: a leading 0 stands alone
ParseNumber(t, i) ==
  IF t[i] = 48 THEN ParseOk(JNum(0), i + 1) ELSE ParseDigits(t, i, 0)

RECURSIVE ParseValue(_, _)
RECURSIVE ParseMembers(_, _, _)
\* JSON.parse of the value that starts at or after position i0
ParseValue(t, i0) ==
  LET i == SkipWs(t, i0) IN
  IF i > Len(t) THEN ParseFail
  ELSE IF t[i] = 123 THEN
    LET j == SkipWs(t, i + 1) IN
    IF j <= Len(t) /\ t[j] = 125 THEN ParseOk(JObj(<<>>), j + 1)
    ELSE ParseMembers(t, j, <<>>)
  ELSE IF t[i] = 34 THEN ParseString(t, i + 1, <<>>)
  ELSE IF t[i] \in 48..57 THEN ParseNumber(t, i)
  ELSE ParseFail

\* JSON.parse of the members of an object from the key at position i on
ParseMembers(t, i, acc) ==
  IF i > Len(t) \/ t[i] # 34 THEN ParseFail
  ELSE
    LET k == ParseString(t, i + 1, <<>>) IN
    IF ~k.ok THEN ParseFail
    ELSE
      LET c == SkipWs(t, k.next) IN
      IF c > Len(t) \/ t[c] # 58 THEN ParseFail
      ELSE
        LET v == ParseValue(t, c + 1) IN
        IF ~v.ok THEN ParseFail
        ELSE
          LET e == SkipWs(t, v.next)
              members == Append(acc, <<k.val.v, v.val>>)
          IN
          IF e > Len(t) THEN ParseFail
          ELSE IF t[e] = 44 THEN ParseMembers(t, SkipWs(t, e + 1), members)
          ELSE IF t[e] = 125 THEN ParseOk(JObj(members), e + 1)
          ELSE ParseFail

\* JSON.parse(text): ok is FALSE where it throws a SyntaxError
JSONParse(text) ==
  LET r == ParseValue(text, 1) IN
  IF r.ok /\ SkipWs(text, r.next) > Len(text) THEN r ELSE ParseFail

\* object[key]: the last member of that name, undefined if there is none
Get(object, key) ==
  IF object.t = "obj" /\ \E i \in 1..Len(object.v) : object.v[i][1] = key
  THEN object.v[CHOOSE i \in 1..Len(object.v) :
                  /\ object.v[i][1] = key
                  /\ \A j \in (i+1)..Len(object.v) : object.v[j][1] # key][2]
  ELSE JUndefined

\* the object literal of construction step 5
PaymentPayloadJSON(p) ==
  JObj(<< <<Key_x402Version, JNum(p.x402Version)>>,
          <<Key_scheme, JStr(p.scheme)>>,
          <<Key_network, JStr(p.network)>>,
          <<Key_payload, JObj(<< <<Key_signature, JStr(p.signature)>>,
                                 <<Key_transaction, JStr(p.transaction)>> >>)>> >>)

\* construction step 6: Buffer.from(JSON.stringify(paymentPayload)).toString('base64')
EncodePayment(p) == ToBase64(BufferFrom(JSONStringify(PaymentPayloadJSON(p))))

\* no payload has been constructed yet
NoPayment ==
  [x402Version |-> 0, scheme |-> <<>>, network |-> <<>>, signature |-> <<>>,
   transaction |-> <<>>]

NotDecoded ==
  [kind |-> "none", x402Version |-> JUndefined, scheme |-> JUndefined,
   network |-> JUndefined, signature |-> JUndefined, transaction |-> JUndefined]

\* JSON.parse(Buffer.from(paymentHeader, 'base64').toString('utf-8')) and the
\* fields that are read of the result
DecodePayment(paymentHeader) ==
  LET parsed == JSONParse(Utf8Decode(BufferFromBase64(paymentHeader)))
      payload == Get(parsed.val, Key_payload)
  IN
  IF ~parsed.ok THEN [NotDecoded EXCEPT !.kind = "throws"]
  ELSE [kind |-> "payload",
        x402Version |-> Get(parsed.val, Key_x402Version),
        scheme |-> Get(parsed.val, Key_scheme),
        network |-> Get(parsed.val, Key_network),
        signature |-> Get(payload, Key_signature),
        transaction |-> Get(payload, Key_transaction)]

(***************************************************************************)
(* The x402 client (createX402Client): what one call of request() sees and *)
(* keeps                                                                   *)
(***************************************************************************)
\* an HTTP response as request() reads it: the status, whether the body has
\* price and paymentAddress, and the X-Payment-Response header
ClientReply(status, price, paymentAddress, receipt) ==
  [status |-> status, price |-> price, paymentAddress |-> paymentAddress,
   receipt |-> receipt]

NoReply == ClientReply(0, FALSE, FALSE, "none")

\* the responses to the request without payment: the resource of an
\* unprotected route, errors, and 402 bodies with and without the two fields
InitialReplies ==
  {ClientReply(st, FALSE, FALSE, "none") : st \in {200, 404, 500}}
    \cup {ClientReply(402, pr, ad, "none") : pr \in BOOLEAN, ad \in BOOLEAN}

\* the responses to the request with payment
PaidReplies ==
  {ClientReply(st, FALSE, FALSE, rc) :
     st \in {200, 402, 403}, rc \in {"none", "json", "garbage"}}

\* a call of request() that has not started
NoCall ==
  [pc |-> "idle", sent |-> 0, signed |-> 0, initialResponse |-> NoReply,
   paidResponse |-> NoReply]

(***************************************************************************)
(* State                                                                   *)
(***************************************************************************)
VARIABLES
  gate,             \* the middleware that is deployed
  facilitator,      \* the facilitator behind facilitatorConfig.url
  recipientAddress, \* first argument of paymentMiddleware
  routeNetwork,     \* network of the RouteConfig of the protected route
  pc,               \* per request: where its middleware execution stands
  path,             \* per request: request.nextUrl.pathname
  header,           \* per request: request.headers.get("X-PAYMENT")
  verifyReq,        \* per request: body of the POST /verify the gate sent
  verifyResp,       \* per request: reply of the facilitator to it
  settleReq,        \* per request: body of the POST /settle the gate sent
  settleResp,       \* per request: reply of the facilitator to it
  verifyCalls,      \* per request: number of verify calls the gate made
  settleCalls,      \* per request: number of settle calls the gate made
  handlerCount,     \* per request: number of NextResponse.next() calls
  submissions,      \* per request: number of submissions made to the ledger
  dupRejected,      \* per request: the ledger refused its submission as a duplicate
  response,         \* per request: the HTTP response returned to the client
  seqNum,           \* ledger: next sequence number of every account
  committed,        \* ledger: committed transactions with their outcome flag
  vEndpoint,        \* direct facilitator call: the endpoint that is called
  vBody,            \* direct facilitator call: request body
  vResult,          \* direct facilitator call: reply of a verify endpoint
  sResult,          \* direct facilitator call: reply of the settle endpoint
  cPayload,         \* client: the PaymentPayload it constructed
  cHeader,          \* client: the X-PAYMENT header text it sends
  cDecoded,         \* gate: what it parsed from that header text
  client            \* per call of request() of the x402 client: its state

config == <<gate, facilitator, recipientAddress, routeNetwork>>
input == <<path, header>>
wire == <<verifyReq, verifyResp, settleReq, settleResp>>
counters == <<verifyCalls, settleCalls, handlerCount>>
ledger == <<seqNum, committed, submissions, dupRejected>>
codec == <<cPayload, cHeader, cDecoded>>
direct == <<vEndpoint, vBody, vResult, sResult, codec, client>>
vars == <<config, pc, input, wire, counters, ledger, response, direct>>

\* the network the demo configures for its route (src/middleware.ts)
DemoNetwork == "testnet"

\* one RouteConfig per route (SDK gate and lib gate)
routes ==
  [p \in {ProtectedPath} |->
     [price |-> Price, network |-> routeNetwork, asset |-> Undefined,
      description |-> "Access to weather data API"]]

\* routes[pathname] of a path that is no key of the route table
NoRoute == [price |-> "", network |-> Undefined, asset |-> Undefined, description |-> ""]

\* every path the matcher covers is given the configuration of the protected route
RouteConfigOf_ByPrefix(p) == routes[ProtectedPath]

\* routes[pathname]: the lookup is by the exact pathname
RouteConfigOf(p) == IF p \in DOMAIN routes THEN routes[p] ELSE NoRoute

Response(status, body, error, message) ==
  [status |-> status, body |-> body, error |-> error, message |-> message,
   accepts |-> <<>>, receipt |-> NoSettleResponse]

NoResponse == Response(0, "none", Null, Null)

\* the response of the downstream handler, returned unchanged
PassThrough == Response(200, "resource", Null, Null)

Init ==
  /\ \E d \in Deployments : gate = d[1] /\ facilitator = d[2]
  /\ recipientAddress \in (IF gate = GATE_VARA THEN {PayTo} ELSE Recipients)
  /\ routeNetwork = DemoNetwork
  /\ pc = [r \in Requests |-> "idle"]
  /\ path = [r \in Requests |-> ""]
  /\ header = [r \in Requests |-> NoHeader]
  /\ verifyReq = [r \in Requests |-> NoBody]
  /\ verifyResp = [r \in Requests |-> NoVerifyResponse]
  /\ settleReq = [r \in Requests |-> NoBody]
  /\ settleResp = [r \in Requests |-> NoSettleResponse]
  /\ verifyCalls = [r \in Requests |-> 0]
  /\ settleCalls = [r \in Requests |-> 0]
  /\ handlerCount = [r \in Requests |-> 0]
  /\ submissions = [r \in Requests |-> 0]
  /\ dupRejected = [r \in Requests |-> FALSE]
  /\ response = [r \in Requests |-> NoResponse]
  /\ seqNum = [s \in Senders |-> 0]
  /\ committed = {}
  /\ vEndpoint = "none"
  /\ vBody = NoBody
  /\ vResult = NoVerifyResponse
  /\ sResult = NoSettleResponse
  /\ cPayload = NoPayment /\ cHeader = <<>> /\ cDecoded = NotDecoded
  /\ client = [c \in Requests |-> NoCall]

\* the response is produced and the request is processed once more
Finish_Reopens(r, resp) ==
  /\ pc' = [pc EXCEPT ![r] = "idle"]
  /\ response' = [response EXCEPT ![r] = resp]

\* the request ends with the response resp
Finish(r, resp) ==
  /\ pc' = [pc EXCEPT ![r] = "done"]
  /\ response' = [response EXCEPT ![r] = resp]

(***************************************************************************)
(* SDK gate (server/next): paymentMiddleware                               *)
(***************************************************************************)
\* every route is taken to be on the test network
NetworkId_AlwaysTestnet(simpleNetwork) == APTOS_TESTNET

\* lines 84-90
NetworkId(simpleNetwork) ==
  IF simpleNetwork = "mainnet" THEN APTOS_MAINNET
  ELSE IF simpleNetwork \in {"testnet", Undefined, ""} THEN APTOS_TESTNET
  ELSE "aptos-other"

\* the price is advertised but the recipient is left out
PaymentRequirements_NoPayTo(routeConfig, recipient) ==
  Requirements(X402_SCHEME, NetworkId(routeConfig.network), routeConfig.price,
               Undefined, Undefined, routeConfig.description)

\* lines 111-123
PaymentRequirements(routeConfig, recipient) ==
  Requirements(X402_SCHEME, NetworkId(routeConfig.network), routeConfig.price,
               recipient, Undefined, routeConfig.description)

\* line 131
Accepts(requirements) == <<requirements>>

\* the missing header is not noticed
NextChallenges_Never(h) == FALSE

\* line 126
NextChallenges(h) == HeaderMissing(h)

\* the verdict of the verifier is ignored
NextVerificationPassed_Always(verification) == TRUE

\* line 193
NextVerificationPassed(verification) == verification.isValid

\* the result of the settlement is ignored
NextSettlementPassed_Always(settlement) == TRUE

\* line 231
NextSettlementPassed(settlement) == settlement.success

\* the HTTP status of the facilitator is forwarded
NextSettleFailureStatus_Forwarded(settlement) == settlement.status

\* line 239
NextSettleFailureStatus(settlement) == 402

\* the recipient is never found missing
RecipientMissing_Never(recipient) == FALSE

\* line 103: !recipientAddress
RecipientMissing(recipient) == recipient = ""

\* an unsupported value is answered like a failed verification
NextInvalidFormat_Forbidden(error) == Response(403, "json", error, error)

\* lines 153-167: the payload carries an unsupported version or scheme
NextInvalidFormat(error) == Response(400, "json", error, Null)

\* the exception is answered with the status of a bad gateway
NextCatch_BadGateway(message) == Response(502, "json", "Bad gateway", message)

\* lines 272-281: the catch block of the middleware
NextCatch(message) == Response(500, "json", "Payment processing failed", message)

\* the part of the middleware that runs before the first await
NextRequest(r, p, h) ==
  /\ gate = GATE_NEXT
  /\ pc[r] = "idle"
  /\ path' = [path EXCEPT ![r] = p]
  \* the header is read only once the route is known to be protected
  /\ header' = [header EXCEPT ![r] = IF RouteConfigOf(p) # NoRoute THEN h ELSE @]
  /\ UNCHANGED <<config, ledger, direct, verifyResp, settleReq, settleResp, settleCalls>>
  /\ IF RouteConfigOf(p) = NoRoute
       THEN /\ handlerCount' = [handlerCount EXCEPT ![r] = @ + 1]
            /\ Finish(r, PassThrough)
            /\ UNCHANGED <<verifyReq, verifyCalls>>
     ELSE IF RecipientMissing(recipientAddress)
       THEN /\ Finish(r, Response(500, "json",
                 "Server configuration error: Payment recipient not configured", Null))
            /\ UNCHANGED <<verifyReq, verifyCalls, handlerCount>>
     ELSE IF NextChallenges(h)
       THEN /\ Finish(r, [Response(402, "json", Null, Null) EXCEPT
                 !.accepts = Accepts(PaymentRequirements(RouteConfigOf(p), recipientAddress))])
            /\ UNCHANGED <<verifyReq, verifyCalls, handlerCount>>
     ELSE IF ParseThrows(h)
       THEN /\ Finish(r, NextCatch("SyntaxError"))
            /\ UNCHANGED <<verifyReq, verifyCalls, handlerCount>>
     ELSE IF h.x402Version # X402_VERSION
       THEN /\ Finish(r, NextInvalidFormat("Unsupported x402 version"))
            /\ UNCHANGED <<verifyReq, verifyCalls, handlerCount>>
     ELSE IF h.scheme # X402_SCHEME
       THEN /\ Finish(r, NextInvalidFormat("Unsupported payment scheme"))
            /\ UNCHANGED <<verifyReq, verifyCalls, handlerCount>>
     ELSE /\ verifyReq' = [verifyReq EXCEPT ![r] =
               VerifyBody(X402_VERSION, h, TRUE,
                          PaymentRequirements(RouteConfigOf(p), recipientAddress))]
          /\ verifyCalls' = [verifyCalls EXCEPT ![r] = @ + 1]
          /\ pc' = [pc EXCEPT ![r] = "verifying"]
          /\ UNCHANGED <<response, handlerCount>>

\* POST /verify of this repository handles the request of r
ProtocolVerify(r) ==
  /\ facilitator = FAC_PROTOCOL
  /\ pc[r] = "verifying"
  /\ verifyResp' = [verifyResp EXCEPT ![r] = VerifyPOST(verifyReq[r])]
  /\ pc' = [pc EXCEPT ![r] = "verified"]
  /\ UNCHANGED <<config, input, verifyReq, settleReq, settleResp, counters, ledger,
                 response, direct>>

\* what a facilitator deployed elsewhere may answer
Unparseable == [NoVerifyResponse EXCEPT !.kind = "unparseable", !.status = 502]
RemoteVerifyReplies ==
  { VerifyResponse(200, TRUE, Null),
    VerifyResponse(200, FALSE, "Invalid signature or transaction"),
    Unparseable }

RemoteVerify(r) ==
  /\ facilitator = FAC_REMOTE
  /\ pc[r] = "verifying"
  /\ \E reply \in RemoteVerifyReplies : verifyResp' = [verifyResp EXCEPT ![r] = reply]
  /\ pc' = [pc EXCEPT ![r] = "verified"]
  /\ UNCHANGED <<config, input, verifyReq, settleReq, settleResp, counters, ledger,
                 response, direct>>

\* the settle request is built anew, without the recipient
NextOnVerify_FreshRequirements(r) ==
  /\ gate = GATE_NEXT
  /\ pc[r] = "verified"
  /\ UNCHANGED <<config, input, verifyReq, verifyResp, settleResp, verifyCalls,
                 handlerCount, ledger, direct>>
  /\ IF verifyResp[r].kind # "json"
       THEN /\ Finish(r, NextCatch("fetch failed"))
            /\ UNCHANGED <<settleReq, settleCalls>>
     ELSE IF ~NextVerificationPassed(verifyResp[r])
       THEN /\ Finish(r, Response(403, "json", "Payment verification failed",
                                  verifyResp[r].invalidReason))
            /\ UNCHANGED <<settleReq, settleCalls>>
     ELSE /\ settleReq' = [settleReq EXCEPT ![r] =
               VerifyBody(X402_VERSION, header[r], TRUE,
                          PaymentRequirements_NoPayTo(RouteConfigOf(path[r]), recipientAddress))]
          /\ settleCalls' = [settleCalls EXCEPT ![r] = @ + 1]
          /\ pc' = [pc EXCEPT ![r] = "settling"]
          /\ UNCHANGED response

\* the settle call is sent without waiting for the verdict of the verifier
NextOnVerify_SettleAtOnce(r) ==
  /\ gate = GATE_NEXT
  /\ pc[r] \in {"verifying", "verified"}
  /\ settleReq' = [settleReq EXCEPT ![r] =
       VerifyBody(X402_VERSION, header[r], TRUE,
                  PaymentRequirements(RouteConfigOf(path[r]), recipientAddress))]
  /\ settleCalls' = [settleCalls EXCEPT ![r] = @ + 1]
  /\ pc' = [pc EXCEPT ![r] = "settling"]
  /\ UNCHANGED <<config, input, verifyReq, verifyResp, settleResp, verifyCalls,
                 handlerCount, ledger, direct, response>>

\* the continuation after `await fetch(.../verify)` and `await verifyResponse.json()`
NextOnVerify(r) ==
  /\ gate = GATE_NEXT
  /\ pc[r] = "verified"
  /\ UNCHANGED <<config, input, verifyReq, verifyResp, settleResp, verifyCalls,
                 handlerCount, ledger, direct>>
  /\ IF verifyResp[r].kind # "json"
       THEN /\ Finish(r, NextCatch("fetch failed"))
            /\ UNCHANGED <<settleReq, settleCalls>>
     ELSE IF ~NextVerificationPassed(verifyResp[r])
       THEN /\ Finish(r, Response(403, "json", "Payment verification failed",
                                  verifyResp[r].invalidReason))
            /\ UNCHANGED <<settleReq, settleCalls>>
     ELSE /\ settleReq' = [settleReq EXCEPT ![r] =
               VerifyBody(X402_VERSION, header[r], TRUE,
                          PaymentRequirements(RouteConfigOf(path[r]), recipientAddress))]
          /\ settleCalls' = [settleCalls EXCEPT ![r] = @ + 1]
          /\ pc' = [pc EXCEPT ![r] = "settling"]
          /\ UNCHANGED response

\* the facilitator settles for one request only
ProtocolSettle_OneAtATime(r) ==
  /\ facilitator = FAC_PROTOCOL
  /\ pc[r] = "settling"
  /\ settleResp' = [settleResp EXCEPT ![r] =
       IF \E o \in Requests \ {r} : settleResp[o].kind = "json"
         THEN SettleResponse(200, FALSE, "Busy", Null, Null)
         ELSE SettlePOST(settleReq[r])]
  /\ pc' = [pc EXCEPT ![r] = "settled"]
  /\ UNCHANGED <<config, input, verifyReq, verifyResp, settleReq, counters, ledger,
                 response, direct>>

\* POST /settle of this repository handles the request of r
ProtocolSettle(r) ==
  /\ facilitator = FAC_PROTOCOL
  /\ pc[r] = "settling"
  /\ settleResp' = [settleResp EXCEPT ![r] = SettlePOST(settleReq[r])]
  /\ pc' = [pc EXCEPT ![r] = "settled"]
  /\ UNCHANGED <<config, input, verifyReq, verifyResp, settleReq, counters, ledger,
                 response, direct>>

UnparseableSettle == [NoSettleResponse EXCEPT !.kind = "unparseable", !.status = 502]
RemoteSettleReplies ==
  { SettleResponse(200, TRUE, Null, "0xabc", APTOS_TESTNET),
    SettleResponse(200, FALSE, "Transaction failed on blockchain", "0xabc", APTOS_TESTNET),
    SettleResponse(409, FALSE, "Transaction already used", Null, Null),
    UnparseableSettle }

RemoteSettle(r) ==
  /\ facilitator = FAC_REMOTE
  /\ pc[r] = "settling"
  /\ \E reply \in RemoteSettleReplies : settleResp' = [settleResp EXCEPT ![r] = reply]
  /\ pc' = [pc EXCEPT ![r] = "settled"]
  /\ UNCHANGED <<config, input, verifyReq, verifyResp, settleReq, counters, ledger,
                 response, direct>>

\* a failed settlement is submitted a second time
NextOnSettle_Retries(r) ==
  /\ gate = GATE_NEXT
  /\ pc[r] = "settled"
  /\ UNCHANGED <<config, input, verifyReq, verifyResp, settleReq, verifyCalls, ledger, direct>>
  /\ IF settleResp[r].kind = "json" /\ ~settleResp[r].success /\ settleCalls[r] < 2
       THEN /\ settleCalls' = [settleCalls EXCEPT ![r] = @ + 1]
            /\ settleResp' = [settleResp EXCEPT ![r] = NoSettleResponse]
            /\ pc' = [pc EXCEPT ![r] = "settling"]
            /\ UNCHANGED <<handlerCount, response>>
     ELSE IF settleResp[r].kind = "json" /\ settleResp[r].success
       THEN /\ handlerCount' = [handlerCount EXCEPT ![r] = @ + 1]
            /\ pc' = [pc EXCEPT ![r] = "invoked"]
            /\ UNCHANGED <<settleCalls, settleResp, response>>
     ELSE /\ Finish(r, Response(402, "json", "Payment settlement failed", settleResp[r].error))
          /\ UNCHANGED <<settleCalls, settleResp, handlerCount>>

\* the continuation after `await fetch(.../settle)` and `await settleResponse.json()`,
\* up to `await NextResponse.next()`
NextOnSettle(r) ==
  /\ gate = GATE_NEXT
  /\ pc[r] = "settled"
  /\ UNCHANGED <<config, input, wire, verifyCalls, settleCalls, ledger, direct>>
  /\ IF settleResp[r].kind # "json"
       THEN /\ Finish(r, NextCatch("fetch failed"))
            /\ UNCHANGED handlerCount
     ELSE IF ~NextSettlementPassed(settleResp[r])
       THEN /\ Finish(r, Response(NextSettleFailureStatus(settleResp[r]), "json",
                                  "Payment settlement failed", settleResp[r].error))
            /\ UNCHANGED handlerCount
     ELSE /\ handlerCount' = [handlerCount EXCEPT ![r] = @ + 1]
          /\ pc' = [pc EXCEPT ![r] = "invoked"]
          /\ UNCHANGED response

\* the handler is run a second time to produce the body
NextDeliver_Twice(r) ==
  /\ gate = GATE_NEXT
  /\ pc[r] = "invoked"
  /\ handlerCount' = [handlerCount EXCEPT ![r] = @ + 1]
  /\ Finish(r, [Response(200, "resource", Null, Null) EXCEPT !.receipt = settleResp[r]])
  /\ UNCHANGED <<config, input, wire, verifyCalls, settleCalls, ledger, direct>>

\* lines 249-271: the handler's response with the X-Payment-Response header
NextDeliver(r) ==
  /\ gate = GATE_NEXT
  /\ pc[r] = "invoked"
  /\ Finish(r, [PassThrough EXCEPT !.receipt = settleResp[r]])
  /\ UNCHANGED <<config, input, wire, counters, ledger, direct>>

\* fetch() rejects: the facilitator cannot be reached
FetchFails(r) ==
  /\ \/ /\ pc[r] = "verifying"
        /\ verifyResp' = [verifyResp EXCEPT ![r] = [NoVerifyResponse EXCEPT !.kind = "neterr"]]
        /\ pc' = [pc EXCEPT ![r] = "verified"]
        /\ UNCHANGED settleResp
     \/ /\ pc[r] = "settling"
        /\ settleResp' = [settleResp EXCEPT ![r] = [NoSettleResponse EXCEPT !.kind = "neterr"]]
        /\ pc' = [pc EXCEPT ![r] = "settled"]
        /\ UNCHANGED verifyResp
  /\ UNCHANGED <<config, input, verifyReq, settleReq, counters, ledger, response, direct>>


(***************************************************************************)
(* Ledger                                                                  *)
(***************************************************************************)
\* the header carries the bytes of a signed transaction
IsTransaction(h) == h.kind = "rawtx" /\ h.transaction.raw = "tx"

\* the sequence number of the transaction has been consumed already
Stale(tx) == seqNum[tx.sender] > tx.seq

HashOf(tx) ==
  IF tx.sender = "alice" THEN "0xa1" ELSE IF tx.sender = "bob" THEN "0xb0" ELSE "0xca"

\* the committed record aptos.transaction.getTransactionByHash returns
Record(tx) == CHOOSE rec \in committed : rec.tx = tx

(***************************************************************************)
(* Facilitator, signedTransaction wire format: POST /settle                *)
(***************************************************************************)
LegacySettleResponse(status, settled, error, message) ==
  [SettleResponse(status, FALSE, error, Null, Null) EXCEPT
     !.settled = settled, !.message = message]

\* lines 113-124
LegacySettled(tx, body) ==
  [LegacySettleResponse(200, TRUE, Null, Null) EXCEPT
     !.txHash = HashOf(tx), !.amount = body.expectedAmount,
     !.recipient = body.expectedRecipient, !.networkId = body.expectedNetwork]

\* lines 126-150: the catch block, by the message of the error
LegacySettleCatch(errorMessage) ==
  IF errorMessage \in {"SEQUENCE_NUMBER_TOO_OLD", "INVALID_SEQ_NUMBER", "already submitted"}
    THEN LegacySettleResponse(409, FALSE, "Transaction already used",
           "This signed transaction has already been submitted to the blockchain")
    ELSE LegacySettleResponse(500, FALSE, "Settlement failed", errorMessage)

\* lines 63-111: the checks on the committed record
LegacyCheckCommitted(rec, body) ==
  IF ~rec.success
    THEN LegacySettleResponse(400, FALSE, "Transaction failed on blockchain", Null)
  ELSE IF rec.tx.to # body.expectedRecipient
    THEN LegacySettleResponse(400, FALSE, "Invalid payment recipient", Null)
  ELSE IF rec.tx.amount # body.expectedAmount
    THEN LegacySettleResponse(400, FALSE, "Invalid payment amount", Null)
  ELSE LegacySettled(rec.tx, body)

\* the arguments the lib gate passes to verifyPayment and settlePayment
LibBody(r) ==
  LegacyBody(header[r], recipientAddress, RouteConfigOf(path[r]).price, RouteConfigOf(path[r]).network)

Reply(r, resp) ==
  /\ settleResp' = [settleResp EXCEPT ![r] = resp]
  /\ pc' = [pc EXCEPT ![r] = "settled"]

\* lines 27-51: up to the return of aptos.transaction.submit.simple
LegacySettleSubmit(r) ==
  /\ facilitator = FAC_LEGACY
  /\ pc[r] = "settling"
  /\ UNCHANGED <<config, input, verifyReq, verifyResp, settleReq, counters, response, direct>>
  /\ LET body == LibBody(r)
         h == body.signedTransaction
     IN  IF HeaderMissing(h) \/ body.expectedRecipient = "" \/ body.expectedAmount = ""
           THEN /\ Reply(r, LegacySettleResponse(400, FALSE, "Missing required fields", Null))
                /\ UNCHANGED ledger
         ELSE /\ submissions' = [submissions EXCEPT ![r] = @ + 1]
              /\ IF ~IsTransaction(h)
                   THEN /\ Reply(r, LegacySettleCatch("deserialization failed"))
                        /\ UNCHANGED <<seqNum, committed, dupRejected>>
                 ELSE IF Stale(h.transaction)
                   THEN /\ Reply(r, LegacySettleCatch("SEQUENCE_NUMBER_TOO_OLD"))
                        /\ dupRejected' = [dupRejected EXCEPT ![r] = TRUE]
                        /\ UNCHANGED <<seqNum, committed>>
                 ELSE \/ /\ Reply(r, LegacySettleCatch("node unavailable"))
                         /\ UNCHANGED <<seqNum, committed, dupRejected>>
                      \/ /\ \E ok \in BOOLEAN :
                              committed' = committed \cup
                                {[tx |-> h.transaction, success |-> ok]}
                         /\ seqNum' = [seqNum EXCEPT ![h.transaction.sender] = @ + 1]
                         /\ pc' = [pc EXCEPT ![r] = "confirming"]
                         /\ UNCHANGED <<settleResp, dupRejected>>

\* waitForTransaction neither resolves nor rejects
LegacySettleConfirm_Hangs(r) ==
  /\ facilitator = FAC_LEGACY
  /\ pc[r] = "confirming"
  /\ FALSE
  /\ UNCHANGED vars

\* lines 53-124: waitForTransaction, getTransactionByHash and the checks
LegacySettleConfirm(r) ==
  /\ facilitator = FAC_LEGACY
  /\ pc[r] = "confirming"
  /\ \/ Reply(r, LegacySettleCatch("transaction timed out"))
     \/ Reply(r, LegacyCheckCommitted(Record(header[r].transaction), LibBody(r)))
  /\ UNCHANGED <<config, input, verifyReq, verifyResp, settleReq, counters, ledger,
                 response, direct>>

\* the verifier submits the transaction it is asked to check
LegacyVerify_Submits(r) ==
  /\ facilitator = FAC_LEGACY
  /\ pc[r] = "verifying"
  /\ verifyResp' = [verifyResp EXCEPT ![r] = LegacyVerifyPOST(LibBody(r))]
  /\ pc' = [pc EXCEPT ![r] = "verified"]
  /\ committed' = committed \cup {[tx |-> header[r].transaction, success |-> TRUE]}
  /\ UNCHANGED <<config, input, verifyReq, settleReq, settleResp, counters, seqNum,
                 submissions, dupRejected, response, direct>>

\* POST /verify in the signedTransaction format handles the request of r
LegacyVerify(r) ==
  /\ facilitator = FAC_LEGACY
  /\ pc[r] = "verifying"
  /\ verifyResp' = [verifyResp EXCEPT ![r] = LegacyVerifyPOST(LibBody(r))]
  /\ pc' = [pc EXCEPT ![r] = "verified"]
  /\ UNCHANGED <<config, input, verifyReq, settleReq, settleResp, counters, ledger,
                 response, direct>>

(***************************************************************************)
(* Facilitator client of the lib package                                   *)
(***************************************************************************)
\* a || b
Or(a, b) == IF a \in {Null, Undefined, ""} THEN b ELSE a

\* a failed fetch is taken for a verification that passed
verifyPayment_PassesOnFailure(reply) ==
  IF reply.kind # "json" THEN LegacyVerifyResponse(0, TRUE, Null, Null) ELSE reply

\* lines 46-85
verifyPayment(reply) ==
  IF reply.kind # "json"
    THEN LegacyVerifyResponse(0, FALSE, "Network error", "fetch failed")
  ELSE IF reply.status \notin 200..299
    THEN LegacyVerifyResponse(reply.status, FALSE, Or(reply.error, "Verification failed"),
                              Or(reply.invalidReason, "HTTP status"))
  ELSE reply

settlePayment(reply) ==
  IF reply.kind # "json"
    THEN LegacySettleResponse(0, FALSE, "Network error", "fetch failed")
  ELSE IF reply.status \notin 200..299
    THEN LegacySettleResponse(reply.status, FALSE, Or(reply.error, "Settlement failed"),
                              Or(reply.message, "HTTP status"))
  ELSE reply

\* createPaymentResponse keeps the fields of the settlement
createPaymentResponse(settlementResult) == [settlementResult EXCEPT !.kind = "receipt"]

SettlementPending ==
  [NoSettleResponse EXCEPT !.kind = "pending", !.error = "Settlement pending"]

(***************************************************************************)
(* lib gate (lib/x402-middleware): paymentMiddleware                       *)
(***************************************************************************)
\* line 319
LibVerificationPassed(verification) == verification.isValid

\* the part of the middleware that runs before the first await
LibRequest(r, p, h) ==
  /\ gate = GATE_LIB
  /\ pc[r] = "idle"
  /\ path' = [path EXCEPT ![r] = p]
  \* the header is read only once the route is known to be protected
  /\ header' = [header EXCEPT ![r] = IF RouteConfigOf(p) # NoRoute THEN h ELSE @]
  /\ UNCHANGED <<config, wire, ledger, direct, settleCalls>>
  /\ IF RouteConfigOf(p) = NoRoute
       THEN /\ handlerCount' = [handlerCount EXCEPT ![r] = @ + 1]
            /\ Finish(r, PassThrough)
            /\ UNCHANGED verifyCalls
     ELSE IF RecipientMissing(recipientAddress)
       THEN /\ Finish(r, Response(500, "json",
                 "Server configuration error: Payment recipient not configured", Null))
            /\ UNCHANGED <<verifyCalls, handlerCount>>
     ELSE IF HeaderMissing(h)
       THEN /\ Finish(r, Response(402, "json", Null, "Payment Required"))
            /\ UNCHANGED <<verifyCalls, handlerCount>>
     ELSE /\ verifyCalls' = [verifyCalls EXCEPT ![r] = @ + 1]
          /\ pc' = [pc EXCEPT ![r] = "verifying"]
          /\ UNCHANGED <<response, handlerCount>>

\* lines 318-341: after verifyPayment returned, up to `await NextResponse.next()`
LibOnVerify(r) ==
  /\ gate = GATE_LIB
  /\ pc[r] = "verified"
  /\ UNCHANGED <<config, input, wire, verifyCalls, settleCalls, ledger, direct>>
  /\ LET verification == verifyPayment(verifyResp[r])
     IN  IF ~LibVerificationPassed(verification)
           THEN /\ Finish(r, Response(403, "json", "Payment verification failed",
                                      Or(verification.invalidReason, verification.error)))
                /\ UNCHANGED handlerCount
         ELSE /\ handlerCount' = [handlerCount EXCEPT ![r] = @ + 1]
              /\ pc' = [pc EXCEPT ![r] = "invoked"]
              /\ UNCHANGED response

\* lines 343-351: the handler has returned, settlePayment is called
LibAfterHandler(r) ==
  /\ gate = GATE_LIB
  /\ pc[r] = "invoked"
  /\ settleCalls' = [settleCalls EXCEPT ![r] = @ + 1]
  /\ pc' = [pc EXCEPT ![r] = "settling"]
  /\ UNCHANGED <<config, input, wire, verifyCalls, handlerCount, ledger, response, direct>>

\* lines 353-372: the handler's response is returned whatever the settlement
LibOnSettle(r) ==
  /\ gate = GATE_LIB
  /\ pc[r] = "settled"
  /\ LET settlement == settlePayment(settleResp[r])
     IN  Finish(r, [PassThrough EXCEPT !.receipt =
                      IF settlement.settled THEN createPaymentResponse(settlement)
                      ELSE SettlementPending])
  /\ UNCHANGED <<config, input, wire, counters, ledger, direct>>

(***************************************************************************)
(* Multi-alternative gate (lib/vara-x402-middleware): the challenge        *)
(***************************************************************************)
\* build(route, recipient): every alternative, in declaration order
BuildRequirements(alternatives, recipient) ==
  [i \in 1..Len(alternatives) |->
     Requirements(X402_SCHEME, alternatives[i].network, alternatives[i].price,
                  recipient, alternatives[i].asset, alternatives[i].description)]

VaraRequest(r, p, h) ==
  /\ gate = GATE_VARA
  /\ pc[r] = "idle"
  /\ HeaderMissing(h)
  /\ path' = [path EXCEPT ![r] = p]
  /\ header' = [header EXCEPT ![r] = h]
  /\ UNCHANGED <<config, wire, ledger, direct, verifyCalls, settleCalls>>
  /\ IF p \notin DOMAIN varaRoutes
       THEN /\ handlerCount' = [handlerCount EXCEPT ![r] = @ + 1]
            /\ Finish(r, PassThrough)
       ELSE /\ Finish(r, [Response(402, "json", Null, Null) EXCEPT
                 !.accepts = BuildRequirements(varaRoutes[p], recipientAddress)])
            /\ UNCHANGED handlerCount

(***************************************************************************)
(* Specification of the deployed system                                    *)
(***************************************************************************)
Next ==
  \E r \in Requests :
    \/ \E p \in Paths, h \in NextHeaders : NextRequest(r, p, h)
    \/ ProtocolVerify(r)
    \/ RemoteVerify(r)
    \/ NextOnVerify(r)
    \/ ProtocolSettle(r)
    \/ RemoteSettle(r)
    \/ NextOnSettle(r)
    \/ NextDeliver(r)
    \/ FetchFails(r)
    \/ \E p \in Paths, h \in LibHeaders : LibRequest(r, p, h)
    \/ LegacyVerify(r)
    \/ LibOnVerify(r)
    \/ LibAfterHandler(r)
    \/ LegacySettleSubmit(r)
    \/ LegacySettleConfirm(r)
    \/ LibOnSettle(r)
    \/ \E p \in Paths, h \in VaraHeaders : VaraRequest(r, p, h)

Spec == Init /\ [][Next]_vars

(***************************************************************************)
(* Specification of the deployments whose facilitator is this repository's,*)
(* with the progress the runtime guarantees: a facilitator handler that    *)
(* can run does run, and an awaited promise of the ledger client (submit,  *)
(* waitForTransaction, getTransactionByHash) resolves or rejects           *)
(***************************************************************************)
InitLocal == Init /\ facilitator \in {FAC_PROTOCOL, FAC_LEGACY}

\* the requests that get as far as a settle call, and one that does not
PaidHeaders ==
  { Good(TxA), Good(TxB), Payload(X402_VERSION, X402_SCHEME, APTOS_TESTNET, "", TxA) }
PaidLibHeaders == { RawTx(TxA), RawTx(TxLow), Garbage }

NextLocal ==
  \E r \in Requests :
    \/ \E h \in PaidHeaders : NextRequest(r, ProtectedPath, h)
    \/ ProtocolVerify(r)
    \/ NextOnVerify(r)
    \/ ProtocolSettle(r)
    \/ NextOnSettle(r)
    \/ NextDeliver(r)
    \/ FetchFails(r)
    \/ \E h \in PaidLibHeaders : LibRequest(r, ProtectedPath, h)
    \/ LegacyVerify(r)
    \/ LibOnVerify(r)
    \/ LibAfterHandler(r)
    \/ LegacySettleSubmit(r)
    \/ LegacySettleConfirm(r)
    \/ LibOnSettle(r)

SettleProgress ==
  \A r \in Requests :
    /\ WF_vars(ProtocolSettle(r))
    /\ WF_vars(LegacySettleSubmit(r))
    /\ WF_vars(LegacySettleConfirm(r))

\* a continuation of the middleware whose awaited promise is settled runs, and
\* POST /verify answers
GateProgress ==
  \A r \in Requests :
    /\ WF_vars(ProtocolVerify(r))
    /\ WF_vars(NextOnVerify(r))
    /\ WF_vars(NextOnSettle(r))
    /\ WF_vars(NextDeliver(r))

SpecLive == InitLocal /\ [][NextLocal]_vars /\ SettleProgress /\ GateProgress

(***************************************************************************)
(* Specification of direct calls to the facilitator's endpoints            *)
(***************************************************************************)
RequirementSet ==
  { Requirements(s, n, Price, PayTo, Undefined, "") :
      s \in {"exact", "upto"}, n \in {"aptos-testnet", "solana"} }

VerifyBodies ==
  { VerifyBody(v, h, hasReq, req) :
      v \in {1, 2}, h \in AllPayloads \cup {NoHeader, Garbage},
      hasReq \in BOOLEAN, req \in RequirementSet }

LegacyBodies ==
  { VerifyBody(1, h, TRUE, Requirements("exact", "testnet", amt, to, Undefined, "")) :
      h \in {RawTx(tx) : tx \in TxBlobs} \cup {NoHeader, Garbage},
      amt \in {Price, ""}, to \in {PayTo, ""} }

InitVerify ==
  /\ gate = GATE_NEXT /\ facilitator = FAC_PROTOCOL /\ recipientAddress = PayTo
  /\ routeNetwork = DemoNetwork
  /\ pc = [r \in Requests |-> "idle"]
  /\ path = [r \in Requests |-> ""]
  /\ header = [r \in Requests |-> NoHeader]
  /\ verifyReq = [r \in Requests |-> NoBody]
  /\ verifyResp = [r \in Requests |-> NoVerifyResponse]
  /\ settleReq = [r \in Requests |-> NoBody]
  /\ settleResp = [r \in Requests |-> NoSettleResponse]
  /\ verifyCalls = [r \in Requests |-> 0]
  /\ settleCalls = [r \in Requests |-> 0]
  /\ handlerCount = [r \in Requests |-> 0]
  /\ submissions = [r \in Requests |-> 0]
  /\ dupRejected = [r \in Requests |-> FALSE]
  /\ response = [r \in Requests |-> NoResponse]
  /\ seqNum = [s \in Senders |-> 0]
  /\ committed = {}
  /\ \/ vEndpoint = "x402" /\ vBody \in VerifyBodies
     \/ vEndpoint = "signedTransaction" /\ vBody \in LegacyBodies
     \/ vEndpoint = "x402/settle" /\ vBody \in VerifyBodies
  /\ vResult = NoVerifyResponse
  /\ sResult = NoSettleResponse
  /\ cPayload = NoPayment /\ cHeader = <<>> /\ cDecoded = NotDecoded
  /\ client = [c \in Requests |-> NoCall]

\* a client posts vBody to /verify (x402 wire format)
DirectVerify ==
  /\ vEndpoint = "x402"
  /\ vResult.kind = "none"
  /\ vResult' = VerifyPOST(vBody)
  /\ UNCHANGED <<config, pc, input, wire, counters, ledger, response, vEndpoint, vBody,
                 sResult, codec, client>>

\* a client posts to /verify (signedTransaction wire format)
DirectLegacyVerify ==
  /\ vEndpoint = "signedTransaction"
  /\ vResult.kind = "none"
  /\ vResult' = LegacyVerifyPOST(
       LegacyBody(vBody.paymentHeader, vBody.paymentRequirements.payTo,
                  vBody.paymentRequirements.maxAmountRequired,
                  vBody.paymentRequirements.network))
  /\ UNCHANGED <<config, pc, input, wire, counters, ledger, response, vEndpoint, vBody,
                 sResult, codec, client>>

\* a client posts vBody to /settle (x402 wire format)
DirectSettle ==
  /\ vEndpoint = "x402/settle"
  /\ sResult.kind = "none"
  /\ sResult' = SettlePOST(vBody)
  /\ UNCHANGED <<config, pc, input, wire, counters, ledger, response, vEndpoint, vBody,
                 vResult, codec, client>>

NextVerify == DirectVerify \/ DirectLegacyVerify \/ DirectSettle

SpecVerify == InitVerify /\ [][NextVerify]_vars

(***************************************************************************)
(* The codec on its own: a client constructs a PaymentPayload and encodes  *)
(* it as the X-PAYMENT header, the gate decodes the header.                *)
(***************************************************************************)
\* "exact", "upto"
CodecSchemes == {<<101, 120, 97, 99, 116>>, <<117, 112, 116, 111>>}
\* "aptos-testnet", a name with a quote and a backslash, a name with a
\* character outside ASCII and a line feed
CodecNetworks ==
  {<<97, 112, 116, 111, 115, 45, 116, 101, 115, 116, 110, 101, 116>>,
   <<97, 34, 98, 92, 99>>, <<233, 10>>}
\* "c2ln", "c2lnQQ", "c2lnQg=="
CodecSignatures ==
  {<<99, 50, 108, 110>>, <<99, 50, 108, 110, 81, 81>>,
   <<99, 50, 108, 110, 81, 103, 61, 61>>}
\* "dHg=", "dHhB", "dHhCQg"
CodecTransactions ==
  {<<100, 72, 103, 61>>, <<100, 72, 104, 66>>, <<100, 72, 104, 67, 81, 103>>}

\* the valid payloads: a version number and four fields that are not empty
CodecPayloads ==
  [x402Version : {X402_VERSION, 10}, scheme : CodecSchemes, network : CodecNetworks,
   signature : CodecSignatures, transaction : CodecTransactions]

InitCodec ==
  /\ gate = GATE_NEXT /\ facilitator = FAC_PROTOCOL /\ recipientAddress = PayTo
  /\ routeNetwork = DemoNetwork
  /\ pc = [r \in Requests |-> "idle"]
  /\ path = [r \in Requests |-> ""]
  /\ header = [r \in Requests |-> NoHeader]
  /\ verifyReq = [r \in Requests |-> NoBody]
  /\ verifyResp = [r \in Requests |-> NoVerifyResponse]
  /\ settleReq = [r \in Requests |-> NoBody]
  /\ settleResp = [r \in Requests |-> NoSettleResponse]
  /\ verifyCalls = [r \in Requests |-> 0]
  /\ settleCalls = [r \in Requests |-> 0]
  /\ handlerCount = [r \in Requests |-> 0]
  /\ submissions = [r \in Requests |-> 0]
  /\ dupRejected = [r \in Requests |-> FALSE]
  /\ response = [r \in Requests |-> NoResponse]
  /\ seqNum = [s \in Senders |-> 0]
  /\ committed = {}
  /\ vEndpoint = "none" /\ vBody = NoBody
  /\ vResult = NoVerifyResponse /\ sResult = NoSettleResponse
  /\ cPayload \in CodecPayloads /\ cHeader = <<>> /\ cDecoded = NotDecoded
  /\ client = [c \in Requests |-> NoCall]

\* the client sets the X-PAYMENT header from the payload it constructed
Encode ==
  /\ cHeader = <<>>
  /\ cHeader' = EncodePayment(cPayload)
  /\ UNCHANGED <<config, pc, input, wire, counters, ledger, response, vEndpoint, vBody,
                 vResult, sResult, cPayload, cDecoded, client>>

\* the gate parses the X-PAYMENT header
Decode ==
  /\ cHeader # <<>>
  /\ cDecoded.kind = "none"
  /\ cDecoded' = DecodePayment(cHeader)
  /\ UNCHANGED <<config, pc, input, wire, counters, ledger, response, vEndpoint, vBody,
                 vResult, sResult, cPayload, cHeader, client>>

NextCodec == Encode \/ Decode

SpecCodec == InitCodec /\ [][NextCodec]_vars

(***************************************************************************)
(* Specification of the SDK gate over the networks a route may configure   *)
(***************************************************************************)
\* RouteConfig.network: "testnet", "mainnet", absent, another name
RouteNetworks == {"testnet", "mainnet", Undefined, "devnet"}

\* no header, and a signed payment for each of the two networks
RouteHeaders ==
  { NoHeader, Good(TxA),
    Payload(X402_VERSION, X402_SCHEME, APTOS_MAINNET, Signed(TxA), TxA) }

InitRoute ==
  /\ gate = GATE_NEXT /\ facilitator = FAC_PROTOCOL /\ recipientAddress = PayTo
  /\ routeNetwork \in RouteNetworks
  /\ pc = [r \in Requests |-> "idle"]
  /\ path = [r \in Requests |-> ""]
  /\ header = [r \in Requests |-> NoHeader]
  /\ verifyReq = [r \in Requests |-> NoBody]
  /\ verifyResp = [r \in Requests |-> NoVerifyResponse]
  /\ settleReq = [r \in Requests |-> NoBody]
  /\ settleResp = [r \in Requests |-> NoSettleResponse]
  /\ verifyCalls = [r \in Requests |-> 0]
  /\ settleCalls = [r \in Requests |-> 0]
  /\ handlerCount = [r \in Requests |-> 0]
  /\ submissions = [r \in Requests |-> 0]
  /\ dupRejected = [r \in Requests |-> FALSE]
  /\ response = [r \in Requests |-> NoResponse]
  /\ seqNum = [s \in Senders |-> 0]
  /\ committed = {}
  /\ vEndpoint = "none" /\ vBody = NoBody
  /\ vResult = NoVerifyResponse /\ sResult = NoSettleResponse
  /\ cPayload = NoPayment /\ cHeader = <<>> /\ cDecoded = NotDecoded
  /\ client = [c \in Requests |-> NoCall]

NextRoute ==
  \E r \in Requests :
    \/ \E h \in RouteHeaders : NextRequest(r, ProtectedPath, h)
    \/ ProtocolVerify(r)
    \/ NextOnVerify(r)
    \/ ProtocolSettle(r)
    \/ NextOnSettle(r)
    \/ NextDeliver(r)
    \/ FetchFails(r)

SpecRoute == InitRoute /\ [][NextRoute]_vars

(***************************************************************************)
(* Specification of the x402 client: calls of request() against a server   *)
(* that may answer anything                                                *)
(***************************************************************************)
\* no request has reached the gate, no call of request() has started
InitClient == InitRoute /\ routeNetwork = DemoNetwork

ClientFrame ==
  UNCHANGED <<config, pc, input, wire, counters, ledger, response, vEndpoint, vBody,
              vResult, sResult, codec>>

\* request() ends: it returns an X402Response or it throws
ClientEnds(c, how) == client' = [client EXCEPT ![c].pc = how]

\* step 1: `await fetch(url, options)`, the request without payment
ClientRequest(c) ==
  /\ client[c].pc = "idle"
  /\ client' = [client EXCEPT ![c].pc = "initial", ![c].sent = @ + 1]
  /\ ClientFrame

\* the server answers the request that is outstanding
ServerAnswers(c) ==
  /\ \/ /\ client[c].pc = "initial"
        /\ \E reply \in InitialReplies :
             client' = [client EXCEPT ![c].pc = "gotInitial", ![c].initialResponse = reply]
     \/ /\ client[c].pc = "paid"
        /\ \E reply \in PaidReplies :
             client' = [client EXCEPT ![c].pc = "gotPaid", ![c].paidResponse = reply]
  /\ ClientFrame

\* fetch() rejects: request() has no try around it
ClientFetchRejects(c) ==
  /\ client[c].pc \in {"initial", "paid"}
  /\ ClientEnds(c, "threw")
  /\ ClientFrame

\* lines 76-94: the response without payment has arrived
ClientOnInitial(c) ==
  /\ client[c].pc = "gotInitial"
  /\ IF client[c].initialResponse.status # 402
       THEN ClientEnds(c, "returned")
     ELSE IF ~client[c].initialResponse.price \/ ~client[c].initialResponse.paymentAddress
       THEN ClientEnds(c, "threw")
     ELSE client' = [client EXCEPT ![c].pc = "building"]
  /\ ClientFrame

\* `await aptos.transaction.build.simple(...)` rejects
ClientBuildFails(c) ==
  /\ client[c].pc = "building"
  /\ ClientEnds(c, "threw")
  /\ ClientFrame

\* lines 101-158: the transaction is built, signed and serialized, and the
\* request is sent again with the X-PAYMENT header
ClientSignAndRetry(c) ==
  /\ client[c].pc = "building"
  /\ client' = [client EXCEPT ![c].pc = "paid", ![c].signed = @ + 1, ![c].sent = @ + 1]
  /\ ClientFrame

\* a 402 for the request with payment starts the payment over
ClientOnPaid_PaysAgain(c) ==
  /\ client[c].pc = "gotPaid"
  /\ IF client[c].paidResponse.status = 402
       THEN client' = [client EXCEPT ![c].pc = "building"]
     ELSE IF client[c].paidResponse.status \notin 200..299
       THEN ClientEnds(c, "threw")
     ELSE ClientEnds(c, "returned")
  /\ ClientFrame

\* lines 162-200: the response with payment has arrived
ClientOnPaid(c) ==
  /\ client[c].pc = "gotPaid"
  /\ IF client[c].paidResponse.status \notin 200..299
       THEN ClientEnds(c, "threw")
     ELSE ClientEnds(c, "returned")
  /\ ClientFrame

NextClient ==
  \E c \in Requests :
    \/ ClientRequest(c)
    \/ ServerAnswers(c)
    \/ ClientFetchRejects(c)
    \/ ClientOnInitial(c)
    \/ ClientBuildFails(c)
    \/ ClientSignAndRetry(c)
    \/ ClientOnPaid(c)

SpecClient == InitClient /\ [][NextClient]_vars


(***************************************************************************)
(* Properties                                                              *)
(***************************************************************************)
Protected(r) == pc[r] # "idle" /\ path[r] \in DOMAIN routes

\* the response of r is the resource handler's
Delivered(r) == pc[r] = "done" /\ response[r].body = "resource"

VerifyReturned(r) == verifyResp[r].kind = "json"
SettleReturned(r) == settleResp[r].kind = "json"

\* C1: in the SDK gate the resource handler of a request to a protected route
\* has been invoked only if the settle call of that request has returned
\* success:true (and its verify call isValid:true); while verify or settle is
\* outstanding, or after either failed, it has not been invoked.
C1_HandlerOnlyAfterSettle ==
  gate = GATE_NEXT =>
    \A r \in Requests :
      (Protected(r) /\ handlerCount[r] > 0) =>
        /\ pc[r] \in {"invoked", "done"}
        /\ VerifyReturned(r) /\ verifyResp[r].isValid
        /\ SettleReturned(r) /\ settleResp[r].success
        /\ settleCalls[r] = 1

C1_Witness ==
  \E r \in Requests :
    /\ gate = GATE_NEXT /\ Protected(r)
    /\ pc[r] = "invoked" /\ handlerCount[r] = 1
    /\ SettleReturned(r) /\ settleResp[r].success

\* C2: in the lib gate the route handler of a request to a protected route has
\* been invoked only if settlePayment has returned settled:true for it.
C2_LibHandlerOnlyAfterSettle ==
  gate = GATE_LIB =>
    \A r \in Requests :
      (Protected(r) /\ handlerCount[r] > 0) =>
        (SettleReturned(r) /\ settlePayment(settleResp[r]).settled)

\* C3: in the SDK gate the number of handler invocations of a request is 0 as
\* long as its verify or settle call is outstanding or unprocessed, 1 once it
\* is Delivered after a successful settle, 0 when it ended with a challenge or
\* a rejection, and never 2.
C3_HandlerCount ==
  gate = GATE_NEXT =>
    \A r \in Requests :
      /\ handlerCount[r] \in {0, 1}
      /\ (Protected(r) /\ pc[r] \in {"verifying", "verified", "settling", "settled"})
           => handlerCount[r] = 0
      /\ (Protected(r) /\ Delivered(r))
           => (handlerCount[r] = 1 /\ SettleReturned(r) /\ settleResp[r].success)
      /\ (Protected(r) /\ pc[r] = "done" /\ ~Delivered(r)) => handlerCount[r] = 0

C3_Witness ==
  \E r \in Requests :
    gate = GATE_NEXT /\ Protected(r) /\ Delivered(r) /\ handlerCount[r] = 1

\* the alternatives the route table declares for a path
Configured(p) == IF gate = GATE_VARA THEN varaRoutes[p] ELSE <<routes[p]>>

\* the network identifier a configured network name stands for
Advertised(network) ==
  IF gate = GATE_VARA THEN network
  ELSE IF network = "mainnet" THEN "aptos-mainnet" ELSE "aptos-testnet"

\* accepts lists every configured alternative, in declaration order
ListsConfigured(accepts, p) ==
  /\ Len(accepts) = Len(Configured(p))
  /\ \A i \in 1..Len(Configured(p)) :
       /\ accepts[i].scheme = "exact"
       /\ accepts[i].network = Advertised(Configured(p)[i].network)
       /\ accepts[i].maxAmountRequired = Configured(p)[i].price
       /\ accepts[i].asset = Configured(p)[i].asset
       /\ accepts[i].description = Configured(p)[i].description
       /\ accepts[i].payTo = recipientAddress
       /\ accepts[i].resource = p

Unpaid(r) == Protected(r) /\ HeaderMissing(header[r])

UnpaidFrame(r) ==
  /\ pc[r] = "done"
  /\ verifyCalls[r] = 0 /\ settleCalls[r] = 0 /\ handlerCount[r] = 0
  /\ submissions[r] = 0
  /\ ~VerifyReturned(r) /\ ~SettleReturned(r)

\* C5 (as claimed): a request without X-PAYMENT header to a protected route
\* ends at once in the 402 challenge, with no verify call, no settle call, no
\* handler invocation and no submission to the ledger, and the step that
\* answers it leaves the ledger unchanged.
C5_UnpaidIsDeadEnd ==
  [][\A r \in Requests :
       (pc[r] = "idle" /\ pc'[r] # "idle" /\ Unpaid(r)')
         => /\ UnpaidFrame(r)'
            /\ response'[r].status = 402
            /\ UNCHANGED <<seqNum, committed>>]_vars

\* C5 (amended): the same, the final status being 402 when the gate's recipient
\* address is not empty and 500 when it is empty.
C5_UnpaidIsDeadEndIfRecipient ==
  [][\A r \in Requests :
       (pc[r] = "idle" /\ pc'[r] # "idle" /\ Unpaid(r)')
         => /\ UnpaidFrame(r)'
            /\ response'[r].status = (IF recipientAddress # "" THEN 402 ELSE 500)
            /\ UNCHANGED <<seqNum, committed>>]_vars

C5_Witness ==
  \E r \in Requests :
    /\ gate = GATE_LIB /\ recipientAddress # "" /\ Unpaid(r)
    /\ pc[r] = "done" /\ response[r].status = 402
    /\ committed # {}

C8_DuplicateIs409 ==
  \A r \in Requests :
    (dupRejected[r] /\ pc[r] = "done") =>
      /\ ~settleResp[r].success /\ ~settleResp[r].settled
      /\ settleResp[r].error = "instrument already used"
      /\ response[r].status = 409

\* C9: of two settle calls of this repository's facilitator that carry the
\* same instrument, at most one returns success.
C9_AtMostOneSuccess ==
  facilitator \in {FAC_PROTOCOL, FAC_LEGACY} =>
    \A r1, r2 \in Requests :
      (r1 # r2 /\ header[r1] = header[r2] /\ SettleReturned(r1) /\ SettleReturned(r2))
        => ~ /\ (settleResp[r1].success \/ settleResp[r1].settled)
             /\ (settleResp[r2].success \/ settleResp[r2].settled)

\* the instrument a verify call is about
Embedded(body) == body.paymentHeader.transaction

\* C10: verify never answers isValid:true for an instrument whose embedded
\* amount is not string-equal to maxAmountRequired, whether the two differ in
\* value ("999999") or only in format ("01000000").
C10_AmountMismatchIsInvalid ==
  (/\ vResult.kind = "json"
   /\ Embedded(vBody).raw = "tx"
   /\ Embedded(vBody).amount # vBody.paymentRequirements.maxAmountRequired)
    => ~vResult.isValid

\* the body of a direct call carries requirements and a decodable payload
Decodable(body) == body.hasRequirements /\ body.paymentHeader.kind = "payload"

\* C11: verify never answers isValid:true for an instrument whose embedded
\* recipient differs from payTo of the requirement.
C11_RecipientMismatchIsInvalid ==
  (/\ vResult.kind = "json"
   /\ Embedded(vBody).raw = "tx"
   /\ Embedded(vBody).to # vBody.paymentRequirements.payTo)
    => ~vResult.isValid

\* a well-formed payload that matches, field by field, a requirement the gate
\* builds for a route (scheme "exact", a supported network)
ExactMatch(body) ==
  LET h == body.paymentHeader
      req == body.paymentRequirements
  IN  /\ Decodable(body)
      /\ body.x402Version = X402_VERSION /\ h.x402Version = X402_VERSION
      /\ req.scheme = X402_SCHEME /\ req.network \in validVaraNetworks
      /\ h.scheme = req.scheme /\ h.network = req.network
      /\ h.signature \notin {"", "===="} /\ h.transaction.raw = "tx"
      /\ h.transaction.to = req.payTo
      /\ h.transaction.amount = req.maxAmountRequired

\* C12: for a well-formed payload of the supported version with two non-empty
\* blobs that matches the route's requirement on scheme, network, recipient
\* and amount, POST /verify answers 200 with isValid:true and invalidReason null.
C12_ExactMatchIsValid ==
  (vEndpoint = "x402" /\ vResult.kind = "json" /\ ExactMatch(vBody))
    => /\ vResult.isValid
       /\ vResult.invalidReason = Null
       /\ vResult.status = 200

C12_Witness ==
  /\ vEndpoint = "x402" /\ vResult.kind = "json" /\ ExactMatch(vBody)
  /\ vResult.isValid
  /\ Embedded(vBody) = TxA

\* C13: verify answers isValid:true only for a payload whose signature blob is
\* the signature of the embedded sender over the transaction; a payload with
\* some other non-empty signature blob is not declared valid.
C13_ValidOnlyIfSigned ==
  (vEndpoint = "x402" /\ vResult.kind = "json" /\ vResult.isValid)
    => vBody.paymentHeader.signature = Signed(Embedded(vBody))

\* the checks of the verifier in the order version, scheme, network,
\* instrument; the first one the call fails, "none" if it passes all four
FirstFailing(body) ==
  LET h == body.paymentHeader
      req == body.paymentRequirements
  IN  IF body.x402Version # X402_VERSION THEN "version"
      ELSE IF h.scheme # req.scheme THEN "scheme"
      ELSE IF h.network \notin validVaraNetworks \/ h.network # req.network THEN "network"
      ELSE IF B64Len(h.signature) = 0 \/ B64Len(h.transaction.raw) = 0 THEN "instrument"
      ELSE "none"

\* the check an invalidReason of the verifier belongs to
ReasonClass(reason) ==
  IF reason = "Unsupported x402 version" THEN "version"
  ELSE IF reason \in {"Unsupported scheme", "Scheme mismatch"} THEN "scheme"
  ELSE IF reason \in {"Invalid Aptos network", "Network mismatch"} THEN "network"
  ELSE IF reason \in {"Invalid payload: missing signature or transaction",
                      "Empty signature or transaction data"} THEN "instrument"
  ELSE "other"

\* C14: when a verify call for a requirement of scheme "exact" fails one or
\* more of the checks version, scheme, network, instrument, the invalidReason
\* it returns is the one of the first failing check in that order.
C14_FirstFailingCheckReported ==
  (/\ vEndpoint = "x402" /\ vResult.kind = "json" /\ Decodable(vBody)
   /\ vBody.paymentHeader.x402Version = vBody.x402Version
   /\ vBody.paymentRequirements.scheme = X402_SCHEME
   /\ FirstFailing(vBody) # "none")
    => (~vResult.isValid /\ ReasonClass(vResult.invalidReason) = FirstFailing(vBody))

\* C15: a direct verify call answers isValid:true only if the payload's own
\* x402Version is the supported one, its scheme equals the requirement's, and
\* its network is a supported one and equals the requirement's.
C15_ValidOnlyIfProtocolMatches ==
  (vEndpoint = "x402" /\ vResult.kind = "json" /\ vResult.isValid)
    => /\ vBody.paymentHeader.x402Version = X402_VERSION
       /\ vBody.paymentHeader.scheme = vBody.paymentRequirements.scheme
       /\ vBody.paymentHeader.network \in validVaraNetworks
       /\ vBody.paymentHeader.network = vBody.paymentRequirements.network
\* C16: a step in which a verify call returns (whatever its input and its
\* verdict) leaves the ledger as it was: the committed transactions and the
\* sequence numbers are unchanged and nothing is submitted.
C16_VerifyLeavesLedger ==
  [][\A r \in Requests :
       (pc[r] = "verifying" /\ pc'[r] = "verified")
         => UNCHANGED <<seqNum, committed, submissions, dupRejected>>]_vars

C16_Witness ==
  \E r \in Requests :
    /\ facilitator = FAC_LEGACY
    /\ pc[r] = "verified" /\ VerifyReturned(r) /\ verifyResp[r].isValid
    /\ submissions[r] = 0
    /\ committed # {}

\* the committed record of the instrument of r pays what the route requires
CommittedAsRequired(r) ==
  \E rec \in committed :
    /\ rec.tx = header[r].transaction
    /\ rec.success
    /\ rec.tx.to = recipientAddress
    /\ rec.tx.amount = routes[path[r]].price

\* C17: a settle call of this repository's facilitator returns success only if
\* the instrument is committed on the ledger with outcome flag success and its
\* recipient and amount equal payTo and maxAmountRequired of the requirement.
C17_SuccessOnlyIfCommittedAsRequired ==
  facilitator \in {FAC_PROTOCOL, FAC_LEGACY} =>
    \A r \in Requests :
      (SettleReturned(r) /\ (settleResp[r].success \/ settleResp[r].settled))
        => CommittedAsRequired(r)

\* the payment header does not decode to a payload with both blobs
DecodeFails(h) ==
  \/ h.kind = "garbage"
  \/ h.kind = "payload" /\ (h.signature = "" \/ h.transaction.raw = "")

\* C18: a direct settle call whose paymentHeader does not decode (not base64
\* of JSON, or signature or transaction missing) returns success:false.
C18_UndecodableIsNotSettled ==
  (vEndpoint = "x402/settle" /\ sResult.kind = "json" /\ DecodeFails(vBody.paymentHeader))
    => ~sResult.success

\* C20: a request for which the gate has made a settle call has made exactly one
\* verify call before, that call has returned, and its verdict was isValid:true;
\* while the verify call is outstanding, or after an invalid verdict, no settle
\* call has been made.
C20_SettleOnlyAfterValidVerify ==
  \A r \in Requests :
    /\ settleCalls[r] > 0 =>
         /\ verifyCalls[r] = 1
         /\ VerifyReturned(r) /\ verifyResp[r].isValid
         /\ pc[r] \notin {"idle", "verifying", "verified"}
    /\ pc[r] \in {"verifying", "verified"} => settleCalls[r] = 0
    /\ settleCalls[r] \in {0, 1}

C20_Witness ==
  \E r \in Requests :
    /\ gate = GATE_NEXT
    /\ pc[r] = "settling" /\ settleCalls[r] = 1
    /\ VerifyReturned(r) /\ verifyResp[r].isValid
\* the settle call of r is in progress at the facilitator
Settling(r) == pc[r] \in {"settling", "confirming"}

SettleFailed(r) ==
  \/ settleResp[r].kind \in {"neterr", "unparseable"}
  \/ SettleReturned(r) /\ ~settleResp[r].success /\ ~settleResp[r].settled

\* C21: the gate makes at most one settle call per request and the facilitator
\* at most one submission; a settle call is made only by a request that has
\* made none and has no settle result, so a failed settlement is never followed
\* by a second settle call of the same request.
C21_SettleAtMostOnce ==
  [][\A r \in Requests :
       /\ settleCalls'[r] \in {0, 1} /\ submissions'[r] \in {0, 1}
       /\ settleCalls'[r] # settleCalls[r] =>
            (settleCalls[r] = 0 /\ settleResp[r].kind = "none")
       /\ SettleFailed(r) =>
            (settleCalls'[r] = settleCalls[r] /\ submissions'[r] = submissions[r]
             /\ settleResp'[r] = settleResp[r])]_vars

C21_Witness ==
  \E r \in Requests :
    /\ gate = GATE_NEXT /\ SettleFailed(r) /\ SettleReturned(r)
    /\ pc[r] = "done" /\ settleCalls[r] = 1

\* the state of the per-request machine a request of the SDK gate is in:
\* 0 Unchallenged, 2 Verifying, 3 Settling, 4 the terminal states (Challenged
\* and answered, Delivered, Rejected); a request that has run the handler and
\* is building the response is between Settling and Delivered
Rank(r) ==
  IF pc[r] = "idle" THEN 0
  ELSE IF pc[r] \in {"verifying", "verified"} THEN 2
  ELSE IF pc[r] \in {"settling", "confirming", "settled", "invoked"} THEN 3
  ELSE 4

\* the steps within one state, in the order the code takes them
Step(r) ==
  IF pc[r] \in {"verifying", "settling"} THEN 0
  ELSE IF pc[r] \in {"verified", "confirming"} THEN 1
  ELSE IF pc[r] = "settled" THEN 2
  ELSE 3

\* C22: in the SDK gate a request only moves forward: every step of a request
\* takes it to a later state of Unchallenged, Verifying, Settling, terminal (or
\* further within the same state), none takes it back, and a request that is
\* answered (with the challenge, the resource or a rejection) takes no further
\* step and keeps its response.
C22_ForwardOnly ==
  [][gate = GATE_NEXT =>
       \A r \in Requests :
         /\ pc'[r] # pc[r] =>
              \/ Rank(r)' > Rank(r)
              \/ Rank(r)' = Rank(r) /\ Step(r)' > Step(r)
         /\ pc[r] = "done" =>
              /\ pc'[r] = "done" /\ response'[r] = response[r]
              /\ path'[r] = path[r] /\ header'[r] = header[r]
              /\ handlerCount'[r] = handlerCount[r]
              /\ verifyCalls'[r] = verifyCalls[r] /\ settleCalls'[r] = settleCalls[r]]_vars

C22_Witness ==
  \E r1, r2 \in Requests :
    /\ gate = GATE_NEXT /\ r1 # r2
    /\ Protected(r1) /\ Delivered(r1)
    /\ Protected(r2) /\ pc[r2] = "done" /\ response[r2].status = 402

\* C23: in the SDK gate a request to a protected route whose X-PAYMENT header
\* does not decode (JSON.parse throws) ends with HTTP 500, and no verify call,
\* no settle call, no handler invocation and no submission is made for it.
C23_UndecodableIs500 ==
  gate = GATE_NEXT =>
    \A r \in Requests :
      (Protected(r) /\ ~HeaderMissing(header[r]) /\ header[r].kind # "payload") =>
        /\ pc[r] = "done"
        /\ response[r].status = 500
        /\ response[r].body # "resource"
        /\ verifyCalls[r] = 0 /\ settleCalls[r] = 0
        /\ handlerCount[r] = 0 /\ submissions[r] = 0

C23_Witness ==
  \E r \in Requests :
    /\ gate = GATE_NEXT /\ recipientAddress # ""
    /\ Protected(r) /\ header[r] = Garbage
    /\ pc[r] = "done" /\ response[r].status = 500
    /\ response[r].error = "Payment processing failed"
\* the payload of r decodes and carries a version or a scheme the gate does
\* not support
UnsupportedFormat(r) ==
  /\ header[r].kind = "payload"
  /\ (header[r].x402Version # X402_VERSION \/ header[r].scheme # X402_SCHEME)

\* the payload of r decodes, has the supported version and scheme, and carries
\* another value the verifier refuses (its network, an empty blob)
UnsupportedValue(r) ==
  /\ header[r].kind = "payload" /\ ~UnsupportedFormat(r)
  /\ \/ header[r].network # APTOS_TESTNET
     \/ B64Len(header[r].signature) = 0
     \/ B64Len(header[r].transaction.raw) = 0

GateCaught(r) ==
  \/ verifyResp[r].kind \in {"neterr", "unparseable"}
  \/ settleResp[r].kind \in {"neterr", "unparseable"}

\* C25: in the SDK gate a request for which the facilitator was unreachable or
\* answered with a reply that does not parse is not left unanswered and does
\* not run the handler: its next step ends it with HTTP 500 and the error
\* "Payment processing failed".
C25_ExceptionIs500 ==
  gate = GATE_NEXT =>
    \A r \in Requests :
      (Protected(r) /\ GateCaught(r)) =>
        /\ handlerCount[r] = 0
        /\ pc[r] \in {"verified", "settled", "done"}
        /\ pc[r] = "done" =>
             /\ response[r].status = 500
             /\ response[r].error = "Payment processing failed"
             /\ response[r].body = "json"

C25_Witness ==
  \E r1, r2 \in Requests :
    /\ gate = GATE_NEXT
    /\ verifyResp[r1].kind = "neterr" /\ pc[r1] = "done" /\ response[r1].status = 500
    /\ settleResp[r2].kind = "unparseable" /\ pc[r2] = "done" /\ response[r2].status = 500
\* the reply is a VerifyResponse: a verdict, with a reason exactly when the
\* verdict is negative
TypedVerifyResult(reply) ==
  /\ reply.kind = "json"
  /\ reply.isValid \in BOOLEAN
  /\ reply.isValid <=> reply.invalidReason = Null

\* the reply is a SettleResponse: success with hash and network, or failure
\* with an error and neither
TypedSettleResult(reply) ==
  /\ reply.kind = "json"
  /\ reply.success \in BOOLEAN
  /\ reply.success => (reply.error = Null /\ reply.txHash # Null /\ reply.networkId # Null)
  /\ ~reply.success => (reply.error # Null /\ reply.txHash = Null /\ reply.networkId = Null)

\* C26: for every request body, one without paymentRequirements included,
\* POST /verify and POST /settle of the x402 wire format answer with a typed
\* result (isValid with a reason when invalid; success with txHash and
\* networkId, or an error): no call ends in an exception that leaves the handler.
C26_TypedResults ==
  /\ (vEndpoint = "x402" /\ vResult.kind # "none") => TypedVerifyResult(vResult)
  /\ (vEndpoint = "x402/settle" /\ sResult.kind # "none") => TypedSettleResult(sResult)

C26_Witness ==
  /\ vEndpoint = "x402" /\ ~vBody.hasRequirements
  /\ vResult.kind = "json" /\ vResult.status = 500 /\ ~vResult.isValid
  /\ vResult.invalidReason = "Cannot read properties of undefined"
\* the settlement receipt attached to the response of r
Receipt(r) == response[r].receipt

\* C27: the response of a request to a protected route carries a settlement
\* receipt with txHash, amount, recipient and network of a settlement that
\* succeeded exactly when the request was Delivered; a request that ended
\* otherwise carries none.
C27_ReceiptIffDelivered ==
  gate \in {GATE_NEXT, GATE_LIB} =>
    \A r \in Requests :
      (Protected(r) /\ pc[r] = "done") =>
        /\ Delivered(r) =>
             /\ Receipt(r).kind \in {"json", "receipt"}
             /\ (Receipt(r).success \/ Receipt(r).settled)
             /\ Receipt(r).txHash # Null /\ Receipt(r).networkId # Null
             /\ Receipt(r).amount # Null /\ Receipt(r).recipient # Null
        /\ ~Delivered(r) => Receipt(r).kind = "none"

\* r1 and r2 are requests to the protected route that carry two different
\* valid instruments
DifferentValid(r1, r2) ==
  /\ recipientAddress # ""
  /\ r1 # r2 /\ Protected(r1) /\ Protected(r2)
  /\ header[r1] = Good(TxA) /\ header[r2] = Good(TxB)

\* what belongs to request r
Own(r) ==
  <<pc[r], path[r], header[r], verifyReq[r], verifyResp[r], settleReq[r], settleResp[r],
    verifyCalls[r], settleCalls[r], handlerCount[r], response[r]>>

\* the facilitator was reachable for r
Reached(r) == verifyResp[r].kind # "neterr" /\ settleResp[r].kind # "neterr"

\* C28: of two concurrent requests to the protected route of the SDK gate that
\* carry different valid instruments, neither is ever refused (its verify call
\* returns isValid:true, its settle call success:true) whatever the other has
\* done; both end, Delivered with HTTP 200, unless the facilitator could not be
\* reached; and a step of one request changes nothing that belongs to the other.
C28_ConcurrentBothDelivered ==
  /\ [](\A r1, r2 \in Requests :
         (gate = GATE_NEXT /\ facilitator = FAC_PROTOCOL /\ DifferentValid(r1, r2)) =>
           \A r \in {r1, r2} :
             /\ VerifyReturned(r) => verifyResp[r].isValid
             /\ SettleReturned(r) => settleResp[r].success
             /\ (pc[r] = "done" /\ Reached(r)) =>
                  (Delivered(r) /\ response[r].status = 200 /\ handlerCount[r] = 1))
  /\ \A r1, r2 \in Requests :
       (gate = GATE_NEXT /\ facilitator = FAC_PROTOCOL /\ DifferentValid(r1, r2))
         ~> (pc[r1] = "done" /\ pc[r2] = "done")
  /\ [][\A r1, r2 \in Requests :
          (r1 # r2 /\ Own(r1)' # Own(r1)) => Own(r2)' = Own(r2)]_vars

C28_Witness ==
  \E r1, r2 \in Requests :
    /\ gate = GATE_NEXT /\ facilitator = FAC_PROTOCOL /\ DifferentValid(r1, r2)
    /\ Delivered(r1) /\ Delivered(r2)
    /\ response[r1].receipt.success /\ response[r2].receipt.success

ConfigError == "Server configuration error: Payment recipient not configured"

\* C29 (as claimed): the missing recipient is an error of the construction of
\* the gate and never the outcome of a request.
C29_ConfigErrorNotPerRequest ==
  \A r \in Requests : response[r].error # ConfigError

\* C29 (amended): a gate constructed with an empty recipient serves requests;
\* it answers every request to a protected route with HTTP 500 and the
\* configuration error, never with the 402 challenge, makes no verify call and
\* no settle call for it and does not deliver the resource.
C29_ConfigErrorPerRequest ==
  (gate \in {GATE_NEXT, GATE_LIB} /\ recipientAddress = "") =>
    \A r \in Requests :
      Protected(r) =>
        /\ pc[r] = "done"
        /\ response[r].status = 500 /\ response[r].error = ConfigError
        /\ response[r].accepts = <<>> /\ response[r].body # "resource"
        /\ verifyCalls[r] = 0 /\ settleCalls[r] = 0
        /\ handlerCount[r] = 0 /\ submissions[r] = 0

C29_Witness ==
  \E r1, r2 \in Requests :
    /\ gate = GATE_NEXT /\ recipientAddress = ""
    /\ Protected(r1) /\ pc[r1] = "done" /\ response[r1].error = ConfigError
    /\ pc[r2] = "done" /\ ~Protected(r2) /\ response[r2] = PassThrough


(***************************************************************************)
(* C30: encoding a valid PaymentPayload as base64 of its JSON and decoding *)
(* that header text as the gate does gives a payload that equals the       *)
(* original in x402Version, scheme, network and in both blobs of the       *)
(* instrument.                                                             *)
(***************************************************************************)
C30_DecodeEncodeIdentity ==
  (cDecoded.kind # "none") =>
    /\ cDecoded.kind = "payload"
    /\ cDecoded.x402Version = JNum(cPayload.x402Version)
    /\ cDecoded.scheme = JStr(cPayload.scheme)
    /\ cDecoded.network = JStr(cPayload.network)
    /\ cDecoded.signature = JStr(cPayload.signature)
    /\ cDecoded.transaction = JStr(cPayload.transaction)

\* a decoded payload whose network needs escaping in JSON and whose header
\* text ends in padding
C30_Witness ==
  /\ cDecoded.kind = "payload"
  /\ \E i \in 1..Len(cPayload.network) : cPayload.network[i] \in {34, 92}
  /\ cHeader[Len(cHeader)] = 61
  /\ cDecoded.network = JStr(cPayload.network)


(***************************************************************************)
(* C31: the gate maps the network name of the route to the identifier of   *)
(* the challenge and of the verify and settle requests: "testnet" gives    *)
(* "aptos-testnet", "mainnet" gives "aptos-mainnet", an absent network     *)
(* gives "aptos-testnet"; the challenge, the verify request and the settle *)
(* request of a request all carry that identifier.                         *)
(***************************************************************************)
MappedNetwork ==
  IF routeNetwork = "mainnet" THEN "aptos-mainnet"
  ELSE IF routeNetwork \in {"testnet", Undefined} THEN "aptos-testnet"
  ELSE "unstated"

C31_NetworkMapped ==
  \A r \in Requests :
    (gate = GATE_NEXT /\ routeNetwork \in {"testnet", "mainnet", Undefined}) =>
      /\ (response[r].status = 402 /\ Len(response[r].accepts) > 0) =>
           \A i \in 1..Len(response[r].accepts) :
             response[r].accepts[i].network = MappedNetwork
      /\ (verifyCalls[r] > 0) => verifyReq[r].paymentRequirements.network = MappedNetwork
      /\ (settleCalls[r] > 0) => settleReq[r].paymentRequirements.network = MappedNetwork

\* on a mainnet route one request was challenged and another one was
\* verified and settled
C31_Witness ==
  /\ gate = GATE_NEXT /\ routeNetwork = "mainnet"
  /\ \E r1, r2 \in Requests :
       /\ response[r1].status = 402 /\ Len(response[r1].accepts) > 0
       /\ response[r1].accepts[1].network = "aptos-mainnet"
       /\ settleCalls[r2] > 0
       /\ settleReq[r2].paymentRequirements.network = "aptos-mainnet"
       /\ verifyReq[r2].paymentRequirements.network = "aptos-mainnet"


(***************************************************************************)
(* C32: across the interleavings of requests that carry the same X-PAYMENT *)
(* instrument the resource handler is invoked for at most one of them: the *)
(* number of Delivered requests to the protected route never exceeds the   *)
(* number of distinct instruments committed on the ledger.                 *)
(***************************************************************************)
DeliveredRequests == {r \in Requests : Protected(r) /\ Delivered(r) /\ handlerCount[r] > 0}
CommittedInstruments == {rec.tx : rec \in committed}

C32_DeliveredAtMostCommitted ==
  (gate = GATE_NEXT /\ facilitator = FAC_PROTOCOL) =>
    /\ Cardinality(DeliveredRequests) <= Cardinality(CommittedInstruments)
    /\ \A r1, r2 \in DeliveredRequests : header[r1] = header[r2] => r1 = r2


(***************************************************************************)
(* C33: within one request of the SDK gate the paymentHeader and the       *)
(* paymentRequirements sent to settle are those sent to verify, and the    *)
(* paymentRequirements are the ones the gate advertises in the 402         *)
(* challenge of that route.                                                *)
(***************************************************************************)
\* a 402 that lists payment requirements (a failed settlement is answered
\* with a 402 that lists none)
IsChallenge(resp) == resp.status = 402 /\ resp.accepts # <<>>

C33_SettleRequestSameAsVerify ==
  gate = GATE_NEXT =>
    \A r \in Requests :
      /\ (settleCalls[r] > 0) =>
           /\ verifyCalls[r] > 0
           /\ settleReq[r].x402Version = verifyReq[r].x402Version
           /\ settleReq[r].paymentHeader = verifyReq[r].paymentHeader
           /\ settleReq[r].paymentHeader = header[r]
           /\ settleReq[r].paymentRequirements = verifyReq[r].paymentRequirements
      /\ \A c \in Requests :
           (verifyCalls[r] > 0 /\ IsChallenge(response[c]) /\ path[c] = path[r]) =>
             response[c].accepts = <<verifyReq[r].paymentRequirements>>

\* one request was challenged, another one to the same route was verified and
\* then settled
C33_Witness ==
  /\ gate = GATE_NEXT
  /\ \E r, c \in Requests :
       /\ settleCalls[r] = 1 /\ verifyCalls[r] = 1
       /\ settleReq[r].paymentHeader.kind = "payload"
       /\ settleReq[r].paymentRequirements.payTo = PayTo
       /\ IsChallenge(response[c]) /\ path[c] = path[r]
       /\ response[c].accepts = <<settleReq[r].paymentRequirements>>


C35_MissingFieldIs400 ==
  (/\ vEndpoint = "x402" /\ vResult.kind = "json"
   /\ vBody.x402Version = X402_VERSION
   /\ (vBody.paymentHeader.kind = "none" \/ ~vBody.hasRequirements)) =>
    /\ vResult.status = 400
    /\ ~vResult.isValid
    /\ vResult.invalidReason = "Missing paymentHeader or paymentRequirements"


(***************************************************************************)
(* C36: verifyPayment and settlePayment of the facilitator client never    *)
(* throw: when the fetch fails or the facilitator answers with a status    *)
(* outside 2xx they return valid:false and settled:false; in the lib gate  *)
(* a facilitator that cannot be reached during verification ends the       *)
(* request with 403 and the handler is not invoked.                        *)
(***************************************************************************)
CallFailed(reply) ==
  reply.kind = "neterr" \/ (reply.kind = "json" /\ reply.status \notin 200..299)

C36_ClientNeverThrows ==
  gate = GATE_LIB =>
    \A r \in Requests :
      /\ CallFailed(verifyResp[r]) =>
           /\ verifyPayment(verifyResp[r]).kind = "json"
           /\ ~verifyPayment(verifyResp[r]).isValid
      /\ CallFailed(settleResp[r]) =>
           /\ settlePayment(settleResp[r]).kind = "json"
           /\ ~settlePayment(settleResp[r]).settled
      /\ (verifyResp[r].kind = "neterr") => handlerCount[r] = 0
      /\ (verifyResp[r].kind = "neterr" /\ pc[r] \notin {"verified"}) =>
           /\ pc[r] = "done" /\ response[r].status = 403
           /\ settleCalls[r] = 0

\* one request ended with 403 after its verify fetch failed, the settle fetch
\* of another failed
C36_Witness ==
  /\ gate = GATE_LIB
  /\ \E r1, r2 \in Requests :
       /\ verifyResp[r1].kind = "neterr" /\ pc[r1] = "done"
       /\ response[r1].status = 403 /\ handlerCount[r1] = 0
       /\ settleResp[r2].kind = "neterr" /\ ~settlePayment(settleResp[r2]).settled


(***************************************************************************)
(* C37: one call of request() of the x402 client sends at most two HTTP    *)
(* requests: when the first response is not 402 it returns it without      *)
(* building a payment; when it is 402 it signs exactly one instrument and  *)
(* retries exactly once with the X-PAYMENT header; it never retries after  *)
(* the second response, whatever its status.                               *)
(***************************************************************************)
CallEnded(c) == client[c].pc \in {"returned", "threw"}
Answered(c) == client[c].initialResponse.status # 0

\* the 402 body names the price and the payment address
Payable(reply) == reply.status = 402 /\ reply.price /\ reply.paymentAddress

\* as stated: every call that was answered with 402 signs once and retries once
C37_TwoRequestsAtMost ==
  \A c \in Requests :
    /\ client[c].sent <= 2 /\ client[c].signed <= 1
    /\ (CallEnded(c) /\ Answered(c) /\ client[c].initialResponse.status # 402) =>
         (client[c].pc = "returned" /\ client[c].sent = 1 /\ client[c].signed = 0)
    /\ (CallEnded(c) /\ client[c].initialResponse.status = 402) =>
         (client[c].sent = 2 /\ client[c].signed = 1)

\* amended: a 402 whose body lacks price or paymentAddress makes the call throw
\* with no instrument signed and no retry, and so does a transaction that
\* cannot be built
C37_TwoRequestsAtMostIfPayable ==
  \A c \in Requests :
    /\ client[c].sent <= 2 /\ client[c].signed <= 1
    /\ client[c].sent <= client[c].signed + 1
    /\ (CallEnded(c) /\ Answered(c) /\ client[c].initialResponse.status # 402) =>
         (client[c].pc = "returned" /\ client[c].sent = 1 /\ client[c].signed = 0)
    /\ (CallEnded(c) /\ client[c].initialResponse.status = 402
          /\ ~Payable(client[c].initialResponse)) =>
         (client[c].pc = "threw" /\ client[c].sent = 1 /\ client[c].signed = 0)
    /\ (CallEnded(c) /\ Payable(client[c].initialResponse)) =>
         \/ client[c].sent = 2 /\ client[c].signed = 1
         \/ client[c].pc = "threw" /\ client[c].sent = 1 /\ client[c].signed = 0
    /\ (client[c].paidResponse.status # 0) =>
         (client[c].sent = 2 /\ client[c].signed = 1 /\ client[c].pc \in {"gotPaid", "returned", "threw"})

\* one call paid and was answered 402 again and ended with two requests sent;
\* another call was answered 402 without a price and ended with one
C37_Witness ==
  \E c1, c2 \in Requests :
    /\ CallEnded(c1) /\ Payable(client[c1].initialResponse)
    /\ client[c1].paidResponse.status = 402
    /\ client[c1].sent = 2 /\ client[c1].signed = 1
    /\ CallEnded(c2) /\ client[c2].initialResponse.status = 402
    /\ ~client[c2].initialResponse.price
    /\ client[c2].sent = 1 /\ client[c2].signed = 0

====
